---- MODULE Spec2Model ----
(***************************************************************************)
(* The trip planner's query parser (SimpleTripParser), the plan_trip       *)
(* endpoint that uses it, and the lazily created global parser instance.   *)
(*                                                                         *)
(* A string is a sequence of Unicode code points (77 is "M"), so that      *)
(* lower-casing, character classes and the regular expressions are         *)
(* computed character by character as Python computes them.  An Optional   *)
(* value is a sequence of length at most one: <<>> is None, <<v>> is v.    *)
(***************************************************************************)
EXTENDS Integers, Sequences, FiniteSets, TLC

None == <<>>
Some(v) == <<v>>

Max(S) == CHOOSE x \in S : \A y \in S : y <= x
Min(S) == CHOOSE x \in S : \A y \in S : x <= y

\* the first of two Optional values that is not None
FirstSome(a, b) == IF a # None THEN a ELSE b

\* of a function to Optional values over a set of numbers, the value that is
\* not None at the least (FirstSomeOf) or the greatest (LastSomeOf) argument
FirstSomeOf(f) ==
  LET ok == {x \in DOMAIN f : f[x] # None}
  IN  IF ok = {} THEN None ELSE f[Min(ok)]
LastSomeOf(f) ==
  LET ok == {x \in DOMAIN f : f[x] # None}
  IN  IF ok = {} THEN None ELSE f[Max(ok)]

\* how a call ends: it returns ret, or it raises the exception exc
Returns(v) == [exc |-> None, ret |-> v]
Raises(e) == [exc |-> Some(e), ret |-> None]

(***************************************************************************)
(* Characters and strings.  str.lower, str.isupper, str.split and the      *)
(* classes \w, \s, \d and \b of a str pattern follow the Unicode character *)
(* database; [A-Z] and [a-z] are the ASCII letters only.                   *)
(***************************************************************************)
\* the characters of \s, which are those str.split() splits at
SpaceChars ==
  { 9, 10, 11, 12, 13, 28, 29, 30, 31, 32, 133, 160, 5760, 8192, 8193, 8194,
    8195, 8196, 8197, 8198, 8199, 8200, 8201, 8202, 8232, 8233, 8239, 8287,
    12288 }

\* the characters of \d from code point 128 on, as <<first, last>>: the decimal
\* digits of the other scripts; every range runs from a zero to a nine
DigitRanges ==
  { <<1632, 1641>>, <<1776, 1785>>, <<1984, 1993>>, <<2406, 2415>>,
    <<2534, 2543>>, <<2662, 2671>>, <<2790, 2799>>, <<2918, 2927>>,
    <<3046, 3055>>, <<3174, 3183>>, <<3302, 3311>>, <<3430, 3439>>,
    <<3558, 3567>>, <<3664, 3673>>, <<3792, 3801>>, <<3872, 3881>>,
    <<4160, 4169>>, <<4240, 4249>>, <<6112, 6121>>, <<6160, 6169>>,
    <<6470, 6479>>, <<6608, 6617>>, <<6784, 6793>>, <<6800, 6809>>,
    <<6992, 7001>>, <<7088, 7097>>, <<7232, 7241>>, <<7248, 7257>>,
    <<42528, 42537>>, <<43216, 43225>>, <<43264, 43273>>, <<43472, 43481>>,
    <<43504, 43513>>, <<43600, 43609>>, <<44016, 44025>>, <<65296, 65305>>,
    <<66720, 66729>>, <<68912, 68921>>, <<69734, 69743>>, <<69872, 69881>>,
    <<69942, 69951>>, <<70096, 70105>>, <<70384, 70393>>, <<70736, 70745>>,
    <<70864, 70873>>, <<71248, 71257>>, <<71360, 71369>>, <<71472, 71481>>,
    <<71904, 71913>>, <<72016, 72025>>, <<72784, 72793>>, <<73040, 73049>>,
    <<73120, 73129>>, <<92768, 92777>>, <<92864, 92873>>, <<93008, 93017>>,
    <<120782, 120831>>, <<123200, 123209>>, <<123632, 123641>>,
    <<125264, 125273>>, <<130032, 130041>> }

\* the characters of \w from code point 128 on, as <<first, last, step>>
WordRanges ==
  { <<170, 170, 1>>, <<178, 179, 1>>, <<181, 181, 1>>, <<185, 186, 1>>,
    <<188, 190, 1>>, <<192, 214, 1>>, <<216, 246, 1>>, <<248, 705, 1>>,
    <<710, 721, 1>>, <<736, 740, 1>>, <<748, 750, 2>>, <<880, 884, 1>>,
    <<886, 887, 1>>, <<890, 893, 1>>, <<895, 895, 1>>, <<902, 902, 1>>,
    <<904, 906, 1>>, <<908, 908, 1>>, <<910, 929, 1>>, <<931, 1013, 1>>,
    <<1015, 1153, 1>>, <<1162, 1327, 1>>, <<1329, 1366, 1>>,
    <<1369, 1369, 1>>, <<1376, 1416, 1>>, <<1488, 1514, 1>>,
    <<1519, 1522, 1>>, <<1568, 1610, 1>>, <<1632, 1641, 1>>,
    <<1646, 1647, 1>>, <<1649, 1747, 1>>, <<1749, 1749, 1>>,
    <<1765, 1766, 1>>, <<1774, 1788, 1>>, <<1791, 1791, 1>>,
    <<1808, 1808, 1>>, <<1810, 1839, 1>>, <<1869, 1957, 1>>,
    <<1969, 1969, 1>>, <<1984, 2026, 1>>, <<2036, 2037, 1>>,
    <<2042, 2042, 1>>, <<2048, 2069, 1>>, <<2074, 2074, 1>>,
    <<2084, 2084, 1>>, <<2088, 2088, 1>>, <<2112, 2136, 1>>,
    <<2144, 2154, 1>>, <<2160, 2183, 1>>, <<2185, 2190, 1>>,
    <<2208, 2249, 1>>, <<2308, 2361, 1>>, <<2365, 2365, 1>>,
    <<2384, 2384, 1>>, <<2392, 2401, 1>>, <<2406, 2415, 1>>,
    <<2417, 2432, 1>>, <<2437, 2444, 1>>, <<2447, 2448, 1>>,
    <<2451, 2472, 1>>, <<2474, 2480, 1>>, <<2482, 2482, 1>>,
    <<2486, 2489, 1>>, <<2493, 2493, 1>>, <<2510, 2510, 1>>,
    <<2524, 2525, 1>>, <<2527, 2529, 1>>, <<2534, 2545, 1>>,
    <<2548, 2553, 1>>, <<2556, 2556, 1>>, <<2565, 2570, 1>>,
    <<2575, 2576, 1>>, <<2579, 2600, 1>>, <<2602, 2608, 1>>,
    <<2610, 2611, 1>>, <<2613, 2614, 1>>, <<2616, 2617, 1>>,
    <<2649, 2652, 1>>, <<2654, 2654, 1>>, <<2662, 2671, 1>>,
    <<2674, 2676, 1>>, <<2693, 2701, 1>>, <<2703, 2705, 1>>,
    <<2707, 2728, 1>>, <<2730, 2736, 1>>, <<2738, 2739, 1>>,
    <<2741, 2745, 1>>, <<2749, 2749, 1>>, <<2768, 2768, 1>>,
    <<2784, 2785, 1>>, <<2790, 2799, 1>>, <<2809, 2809, 1>>,
    <<2821, 2828, 1>>, <<2831, 2832, 1>>, <<2835, 2856, 1>>,
    <<2858, 2864, 1>>, <<2866, 2867, 1>>, <<2869, 2873, 1>>,
    <<2877, 2877, 1>>, <<2908, 2909, 1>>, <<2911, 2913, 1>>,
    <<2918, 2927, 1>>, <<2929, 2935, 1>>, <<2947, 2947, 1>>,
    <<2949, 2954, 1>>, <<2958, 2960, 1>>, <<2962, 2965, 1>>,
    <<2969, 2970, 1>>, <<2972, 2972, 1>>, <<2974, 2975, 1>>,
    <<2979, 2980, 1>>, <<2984, 2986, 1>>, <<2990, 3001, 1>>,
    <<3024, 3024, 1>>, <<3046, 3058, 1>>, <<3077, 3084, 1>>,
    <<3086, 3088, 1>>, <<3090, 3112, 1>>, <<3114, 3129, 1>>,
    <<3133, 3133, 1>>, <<3160, 3162, 1>>, <<3165, 3165, 1>>,
    <<3168, 3169, 1>>, <<3174, 3183, 1>>, <<3192, 3198, 1>>,
    <<3200, 3200, 1>>, <<3205, 3212, 1>>, <<3214, 3216, 1>>,
    <<3218, 3240, 1>>, <<3242, 3251, 1>>, <<3253, 3257, 1>>,
    <<3261, 3261, 1>>, <<3293, 3294, 1>>, <<3296, 3297, 1>>,
    <<3302, 3311, 1>>, <<3313, 3314, 1>>, <<3332, 3340, 1>>,
    <<3342, 3344, 1>>, <<3346, 3386, 1>>, <<3389, 3389, 1>>,
    <<3406, 3406, 1>>, <<3412, 3414, 1>>, <<3416, 3425, 1>>,
    <<3430, 3448, 1>>, <<3450, 3455, 1>>, <<3461, 3478, 1>>,
    <<3482, 3505, 1>>, <<3507, 3515, 1>>, <<3517, 3517, 1>>,
    <<3520, 3526, 1>>, <<3558, 3567, 1>>, <<3585, 3632, 1>>,
    <<3634, 3635, 1>>, <<3648, 3654, 1>>, <<3664, 3673, 1>>,
    <<3713, 3714, 1>>, <<3716, 3716, 1>>, <<3718, 3722, 1>>,
    <<3724, 3747, 1>>, <<3749, 3749, 1>>, <<3751, 3760, 1>>,
    <<3762, 3763, 1>>, <<3773, 3773, 1>>, <<3776, 3780, 1>>,
    <<3782, 3782, 1>>, <<3792, 3801, 1>>, <<3804, 3807, 1>>,
    <<3840, 3840, 1>>, <<3872, 3891, 1>>, <<3904, 3911, 1>>,
    <<3913, 3948, 1>>, <<3976, 3980, 1>>, <<4096, 4138, 1>>,
    <<4159, 4169, 1>>, <<4176, 4181, 1>>, <<4186, 4189, 1>>,
    <<4193, 4193, 1>>, <<4197, 4198, 1>>, <<4206, 4208, 1>>,
    <<4213, 4225, 1>>, <<4238, 4238, 1>>, <<4240, 4249, 1>>,
    <<4256, 4293, 1>>, <<4295, 4295, 1>>, <<4301, 4301, 1>>,
    <<4304, 4346, 1>>, <<4348, 4680, 1>>, <<4682, 4685, 1>>,
    <<4688, 4694, 1>>, <<4696, 4696, 1>>, <<4698, 4701, 1>>,
    <<4704, 4744, 1>>, <<4746, 4749, 1>>, <<4752, 4784, 1>>,
    <<4786, 4789, 1>>, <<4792, 4798, 1>>, <<4800, 4800, 1>>,
    <<4802, 4805, 1>>, <<4808, 4822, 1>>, <<4824, 4880, 1>>,
    <<4882, 4885, 1>>, <<4888, 4954, 1>>, <<4969, 4988, 1>>,
    <<4992, 5007, 1>>, <<5024, 5109, 1>>, <<5112, 5117, 1>>,
    <<5121, 5740, 1>>, <<5743, 5759, 1>>, <<5761, 5786, 1>>,
    <<5792, 5866, 1>>, <<5870, 5880, 1>>, <<5888, 5905, 1>>,
    <<5919, 5937, 1>>, <<5952, 5969, 1>>, <<5984, 5996, 1>>,
    <<5998, 6000, 1>>, <<6016, 6067, 1>>, <<6103, 6103, 1>>,
    <<6108, 6108, 1>>, <<6112, 6121, 1>>, <<6128, 6137, 1>>,
    <<6160, 6169, 1>>, <<6176, 6264, 1>>, <<6272, 6276, 1>>,
    <<6279, 6312, 1>>, <<6314, 6314, 1>>, <<6320, 6389, 1>>,
    <<6400, 6430, 1>>, <<6470, 6509, 1>>, <<6512, 6516, 1>>,
    <<6528, 6571, 1>>, <<6576, 6601, 1>>, <<6608, 6618, 1>>,
    <<6656, 6678, 1>>, <<6688, 6740, 1>>, <<6784, 6793, 1>>,
    <<6800, 6809, 1>>, <<6823, 6823, 1>>, <<6917, 6963, 1>>,
    <<6981, 6988, 1>>, <<6992, 7001, 1>>, <<7043, 7072, 1>>,
    <<7086, 7141, 1>>, <<7168, 7203, 1>>, <<7232, 7241, 1>>,
    <<7245, 7293, 1>>, <<7296, 7304, 1>>, <<7312, 7354, 1>>,
    <<7357, 7359, 1>>, <<7401, 7404, 1>>, <<7406, 7411, 1>>,
    <<7413, 7414, 1>>, <<7418, 7418, 1>>, <<7424, 7615, 1>>,
    <<7680, 7957, 1>>, <<7960, 7965, 1>>, <<7968, 8005, 1>>,
    <<8008, 8013, 1>>, <<8016, 8023, 1>>, <<8025, 8029, 2>>,
    <<8031, 8061, 1>>, <<8064, 8116, 1>>, <<8118, 8124, 1>>,
    <<8126, 8126, 1>>, <<8130, 8132, 1>>, <<8134, 8140, 1>>,
    <<8144, 8147, 1>>, <<8150, 8155, 1>>, <<8160, 8172, 1>>,
    <<8178, 8180, 1>>, <<8182, 8188, 1>>, <<8304, 8305, 1>>,
    <<8308, 8313, 1>>, <<8319, 8329, 1>>, <<8336, 8348, 1>>,
    <<8450, 8450, 1>>, <<8455, 8455, 1>>, <<8458, 8467, 1>>,
    <<8469, 8469, 1>>, <<8473, 8477, 1>>, <<8484, 8488, 2>>,
    <<8490, 8493, 1>>, <<8495, 8505, 1>>, <<8508, 8511, 1>>,
    <<8517, 8521, 1>>, <<8526, 8526, 1>>, <<8528, 8585, 1>>,
    <<9312, 9371, 1>>, <<9450, 9471, 1>>, <<10102, 10131, 1>>,
    <<11264, 11492, 1>>, <<11499, 11502, 1>>, <<11506, 11507, 1>>,
    <<11517, 11517, 1>>, <<11520, 11557, 1>>, <<11559, 11559, 1>>,
    <<11565, 11565, 1>>, <<11568, 11623, 1>>, <<11631, 11631, 1>>,
    <<11648, 11670, 1>>, <<11680, 11686, 1>>, <<11688, 11694, 1>>,
    <<11696, 11702, 1>>, <<11704, 11710, 1>>, <<11712, 11718, 1>>,
    <<11720, 11726, 1>>, <<11728, 11734, 1>>, <<11736, 11742, 1>>,
    <<11823, 11823, 1>>, <<12293, 12295, 1>>, <<12321, 12329, 1>>,
    <<12337, 12341, 1>>, <<12344, 12348, 1>>, <<12353, 12438, 1>>,
    <<12445, 12447, 1>>, <<12449, 12538, 1>>, <<12540, 12543, 1>>,
    <<12549, 12591, 1>>, <<12593, 12686, 1>>, <<12690, 12693, 1>>,
    <<12704, 12735, 1>>, <<12784, 12799, 1>>, <<12832, 12841, 1>>,
    <<12872, 12879, 1>>, <<12881, 12895, 1>>, <<12928, 12937, 1>>,
    <<12977, 12991, 1>>, <<13312, 19903, 1>>, <<19968, 42124, 1>>,
    <<42192, 42237, 1>>, <<42240, 42508, 1>>, <<42512, 42539, 1>>,
    <<42560, 42606, 1>>, <<42623, 42653, 1>>, <<42656, 42735, 1>>,
    <<42775, 42783, 1>>, <<42786, 42888, 1>>, <<42891, 42954, 1>>,
    <<42960, 42961, 1>>, <<42963, 42963, 1>>, <<42965, 42969, 1>>,
    <<42994, 43009, 1>>, <<43011, 43013, 1>>, <<43015, 43018, 1>>,
    <<43020, 43042, 1>>, <<43056, 43061, 1>>, <<43072, 43123, 1>>,
    <<43138, 43187, 1>>, <<43216, 43225, 1>>, <<43250, 43255, 1>>,
    <<43259, 43259, 1>>, <<43261, 43262, 1>>, <<43264, 43301, 1>>,
    <<43312, 43334, 1>>, <<43360, 43388, 1>>, <<43396, 43442, 1>>,
    <<43471, 43481, 1>>, <<43488, 43492, 1>>, <<43494, 43518, 1>>,
    <<43520, 43560, 1>>, <<43584, 43586, 1>>, <<43588, 43595, 1>>,
    <<43600, 43609, 1>>, <<43616, 43638, 1>>, <<43642, 43642, 1>>,
    <<43646, 43695, 1>>, <<43697, 43697, 1>>, <<43701, 43702, 1>>,
    <<43705, 43709, 1>>, <<43712, 43714, 2>>, <<43739, 43741, 1>>,
    <<43744, 43754, 1>>, <<43762, 43764, 1>>, <<43777, 43782, 1>>,
    <<43785, 43790, 1>>, <<43793, 43798, 1>>, <<43808, 43814, 1>>,
    <<43816, 43822, 1>>, <<43824, 43866, 1>>, <<43868, 43881, 1>>,
    <<43888, 44002, 1>>, <<44016, 44025, 1>>, <<44032, 55203, 1>>,
    <<55216, 55238, 1>>, <<55243, 55291, 1>>, <<63744, 64109, 1>>,
    <<64112, 64217, 1>>, <<64256, 64262, 1>>, <<64275, 64279, 1>>,
    <<64285, 64285, 1>>, <<64287, 64296, 1>>, <<64298, 64310, 1>>,
    <<64312, 64316, 1>>, <<64318, 64318, 1>>, <<64320, 64321, 1>>,
    <<64323, 64324, 1>>, <<64326, 64433, 1>>, <<64467, 64829, 1>>,
    <<64848, 64911, 1>>, <<64914, 64967, 1>>, <<65008, 65019, 1>>,
    <<65136, 65140, 1>>, <<65142, 65276, 1>>, <<65296, 65305, 1>>,
    <<65313, 65338, 1>>, <<65345, 65370, 1>>, <<65382, 65470, 1>>,
    <<65474, 65479, 1>>, <<65482, 65487, 1>>, <<65490, 65495, 1>>,
    <<65498, 65500, 1>>, <<65536, 65547, 1>>, <<65549, 65574, 1>>,
    <<65576, 65594, 1>>, <<65596, 65597, 1>>, <<65599, 65613, 1>>,
    <<65616, 65629, 1>>, <<65664, 65786, 1>>, <<65799, 65843, 1>>,
    <<65856, 65912, 1>>, <<65930, 65931, 1>>, <<66176, 66204, 1>>,
    <<66208, 66256, 1>>, <<66273, 66299, 1>>, <<66304, 66339, 1>>,
    <<66349, 66378, 1>>, <<66384, 66421, 1>>, <<66432, 66461, 1>>,
    <<66464, 66499, 1>>, <<66504, 66511, 1>>, <<66513, 66517, 1>>,
    <<66560, 66717, 1>>, <<66720, 66729, 1>>, <<66736, 66771, 1>>,
    <<66776, 66811, 1>>, <<66816, 66855, 1>>, <<66864, 66915, 1>>,
    <<66928, 66938, 1>>, <<66940, 66954, 1>>, <<66956, 66962, 1>>,
    <<66964, 66965, 1>>, <<66967, 66977, 1>>, <<66979, 66993, 1>>,
    <<66995, 67001, 1>>, <<67003, 67004, 1>>, <<67072, 67382, 1>>,
    <<67392, 67413, 1>>, <<67424, 67431, 1>>, <<67456, 67461, 1>>,
    <<67463, 67504, 1>>, <<67506, 67514, 1>>, <<67584, 67589, 1>>,
    <<67592, 67592, 1>>, <<67594, 67637, 1>>, <<67639, 67640, 1>>,
    <<67644, 67644, 1>>, <<67647, 67669, 1>>, <<67672, 67702, 1>>,
    <<67705, 67742, 1>>, <<67751, 67759, 1>>, <<67808, 67826, 1>>,
    <<67828, 67829, 1>>, <<67835, 67867, 1>>, <<67872, 67897, 1>>,
    <<67968, 68023, 1>>, <<68028, 68047, 1>>, <<68050, 68096, 1>>,
    <<68112, 68115, 1>>, <<68117, 68119, 1>>, <<68121, 68149, 1>>,
    <<68160, 68168, 1>>, <<68192, 68222, 1>>, <<68224, 68255, 1>>,
    <<68288, 68295, 1>>, <<68297, 68324, 1>>, <<68331, 68335, 1>>,
    <<68352, 68405, 1>>, <<68416, 68437, 1>>, <<68440, 68466, 1>>,
    <<68472, 68497, 1>>, <<68521, 68527, 1>>, <<68608, 68680, 1>>,
    <<68736, 68786, 1>>, <<68800, 68850, 1>>, <<68858, 68899, 1>>,
    <<68912, 68921, 1>>, <<69216, 69246, 1>>, <<69248, 69289, 1>>,
    <<69296, 69297, 1>>, <<69376, 69415, 1>>, <<69424, 69445, 1>>,
    <<69457, 69460, 1>>, <<69488, 69505, 1>>, <<69552, 69579, 1>>,
    <<69600, 69622, 1>>, <<69635, 69687, 1>>, <<69714, 69743, 1>>,
    <<69745, 69746, 1>>, <<69749, 69749, 1>>, <<69763, 69807, 1>>,
    <<69840, 69864, 1>>, <<69872, 69881, 1>>, <<69891, 69926, 1>>,
    <<69942, 69951, 1>>, <<69956, 69956, 1>>, <<69959, 69959, 1>>,
    <<69968, 70002, 1>>, <<70006, 70006, 1>>, <<70019, 70066, 1>>,
    <<70081, 70084, 1>>, <<70096, 70106, 1>>, <<70108, 70108, 1>>,
    <<70113, 70132, 1>>, <<70144, 70161, 1>>, <<70163, 70187, 1>>,
    <<70272, 70278, 1>>, <<70280, 70280, 1>>, <<70282, 70285, 1>>,
    <<70287, 70301, 1>>, <<70303, 70312, 1>>, <<70320, 70366, 1>>,
    <<70384, 70393, 1>>, <<70405, 70412, 1>>, <<70415, 70416, 1>>,
    <<70419, 70440, 1>>, <<70442, 70448, 1>>, <<70450, 70451, 1>>,
    <<70453, 70457, 1>>, <<70461, 70461, 1>>, <<70480, 70480, 1>>,
    <<70493, 70497, 1>>, <<70656, 70708, 1>>, <<70727, 70730, 1>>,
    <<70736, 70745, 1>>, <<70751, 70753, 1>>, <<70784, 70831, 1>>,
    <<70852, 70853, 1>>, <<70855, 70855, 1>>, <<70864, 70873, 1>>,
    <<71040, 71086, 1>>, <<71128, 71131, 1>>, <<71168, 71215, 1>>,
    <<71236, 71236, 1>>, <<71248, 71257, 1>>, <<71296, 71338, 1>>,
    <<71352, 71352, 1>>, <<71360, 71369, 1>>, <<71424, 71450, 1>>,
    <<71472, 71483, 1>>, <<71488, 71494, 1>>, <<71680, 71723, 1>>,
    <<71840, 71922, 1>>, <<71935, 71942, 1>>, <<71945, 71945, 1>>,
    <<71948, 71955, 1>>, <<71957, 71958, 1>>, <<71960, 71983, 1>>,
    <<71999, 72001, 2>>, <<72016, 72025, 1>>, <<72096, 72103, 1>>,
    <<72106, 72144, 1>>, <<72161, 72163, 2>>, <<72192, 72192, 1>>,
    <<72203, 72242, 1>>, <<72250, 72250, 1>>, <<72272, 72272, 1>>,
    <<72284, 72329, 1>>, <<72349, 72349, 1>>, <<72368, 72440, 1>>,
    <<72704, 72712, 1>>, <<72714, 72750, 1>>, <<72768, 72768, 1>>,
    <<72784, 72812, 1>>, <<72818, 72847, 1>>, <<72960, 72966, 1>>,
    <<72968, 72969, 1>>, <<72971, 73008, 1>>, <<73030, 73030, 1>>,
    <<73040, 73049, 1>>, <<73056, 73061, 1>>, <<73063, 73064, 1>>,
    <<73066, 73097, 1>>, <<73112, 73112, 1>>, <<73120, 73129, 1>>,
    <<73440, 73458, 1>>, <<73648, 73648, 1>>, <<73664, 73684, 1>>,
    <<73728, 74649, 1>>, <<74752, 74862, 1>>, <<74880, 75075, 1>>,
    <<77712, 77808, 1>>, <<77824, 78894, 1>>, <<82944, 83526, 1>>,
    <<92160, 92728, 1>>, <<92736, 92766, 1>>, <<92768, 92777, 1>>,
    <<92784, 92862, 1>>, <<92864, 92873, 1>>, <<92880, 92909, 1>>,
    <<92928, 92975, 1>>, <<92992, 92995, 1>>, <<93008, 93017, 1>>,
    <<93019, 93025, 1>>, <<93027, 93047, 1>>, <<93053, 93071, 1>>,
    <<93760, 93846, 1>>, <<93952, 94026, 1>>, <<94032, 94032, 1>>,
    <<94099, 94111, 1>>, <<94176, 94177, 1>>, <<94179, 94179, 1>>,
    <<94208, 100343, 1>>, <<100352, 101589, 1>>, <<101632, 101640, 1>>,
    <<110576, 110579, 1>>, <<110581, 110587, 1>>, <<110589, 110590, 1>>,
    <<110592, 110882, 1>>, <<110928, 110930, 1>>, <<110948, 110951, 1>>,
    <<110960, 111355, 1>>, <<113664, 113770, 1>>, <<113776, 113788, 1>>,
    <<113792, 113800, 1>>, <<113808, 113817, 1>>, <<119520, 119539, 1>>,
    <<119648, 119672, 1>>, <<119808, 119892, 1>>, <<119894, 119964, 1>>,
    <<119966, 119967, 1>>, <<119970, 119970, 1>>, <<119973, 119974, 1>>,
    <<119977, 119980, 1>>, <<119982, 119993, 1>>, <<119995, 119995, 1>>,
    <<119997, 120003, 1>>, <<120005, 120069, 1>>, <<120071, 120074, 1>>,
    <<120077, 120084, 1>>, <<120086, 120092, 1>>, <<120094, 120121, 1>>,
    <<120123, 120126, 1>>, <<120128, 120132, 1>>, <<120134, 120134, 1>>,
    <<120138, 120144, 1>>, <<120146, 120485, 1>>, <<120488, 120512, 1>>,
    <<120514, 120538, 1>>, <<120540, 120570, 1>>, <<120572, 120596, 1>>,
    <<120598, 120628, 1>>, <<120630, 120654, 1>>, <<120656, 120686, 1>>,
    <<120688, 120712, 1>>, <<120714, 120744, 1>>, <<120746, 120770, 1>>,
    <<120772, 120779, 1>>, <<120782, 120831, 1>>, <<122624, 122654, 1>>,
    <<123136, 123180, 1>>, <<123191, 123197, 1>>, <<123200, 123209, 1>>,
    <<123214, 123214, 1>>, <<123536, 123565, 1>>, <<123584, 123627, 1>>,
    <<123632, 123641, 1>>, <<124896, 124902, 1>>, <<124904, 124907, 1>>,
    <<124909, 124910, 1>>, <<124912, 124926, 1>>, <<124928, 125124, 1>>,
    <<125127, 125135, 1>>, <<125184, 125251, 1>>, <<125259, 125259, 1>>,
    <<125264, 125273, 1>>, <<126065, 126123, 1>>, <<126125, 126127, 1>>,
    <<126129, 126132, 1>>, <<126209, 126253, 1>>, <<126255, 126269, 1>>,
    <<126464, 126467, 1>>, <<126469, 126495, 1>>, <<126497, 126498, 1>>,
    <<126500, 126500, 1>>, <<126503, 126503, 1>>, <<126505, 126514, 1>>,
    <<126516, 126519, 1>>, <<126521, 126523, 2>>, <<126530, 126530, 1>>,
    <<126535, 126539, 2>>, <<126541, 126543, 1>>, <<126545, 126546, 1>>,
    <<126548, 126548, 1>>, <<126551, 126559, 2>>, <<126561, 126562, 1>>,
    <<126564, 126564, 1>>, <<126567, 126570, 1>>, <<126572, 126578, 1>>,
    <<126580, 126583, 1>>, <<126585, 126588, 1>>, <<126590, 126590, 1>>,
    <<126592, 126601, 1>>, <<126603, 126619, 1>>, <<126625, 126627, 1>>,
    <<126629, 126633, 1>>, <<126635, 126651, 1>>, <<127232, 127244, 1>>,
    <<130032, 130041, 1>>, <<131072, 173791, 1>>, <<173824, 177976, 1>>,
    <<177984, 178205, 1>>, <<178208, 183969, 1>>, <<183984, 191456, 1>>,
    <<194560, 195101, 1>>, <<196608, 201546, 1>> }

\* the characters with str.isupper from code point 128 on
UpperRanges ==
  { <<192, 214, 1>>, <<216, 222, 1>>, <<256, 310, 2>>, <<313, 327, 2>>,
    <<330, 374, 2>>, <<376, 377, 1>>, <<379, 381, 2>>, <<385, 386, 1>>,
    <<388, 388, 1>>, <<390, 391, 1>>, <<393, 395, 1>>, <<398, 401, 1>>,
    <<403, 404, 1>>, <<406, 408, 1>>, <<412, 413, 1>>, <<415, 416, 1>>,
    <<418, 420, 2>>, <<422, 423, 1>>, <<425, 425, 1>>, <<428, 428, 1>>,
    <<430, 431, 1>>, <<433, 435, 1>>, <<437, 437, 1>>, <<439, 440, 1>>,
    <<444, 444, 1>>, <<452, 452, 1>>, <<455, 455, 1>>, <<458, 458, 1>>,
    <<461, 475, 2>>, <<478, 494, 2>>, <<497, 497, 1>>, <<500, 500, 1>>,
    <<502, 504, 1>>, <<506, 562, 2>>, <<570, 571, 1>>, <<573, 574, 1>>,
    <<577, 577, 1>>, <<579, 582, 1>>, <<584, 590, 2>>, <<880, 882, 2>>,
    <<886, 886, 1>>, <<895, 895, 1>>, <<902, 902, 1>>, <<904, 906, 1>>,
    <<908, 908, 1>>, <<910, 911, 1>>, <<913, 929, 1>>, <<931, 939, 1>>,
    <<975, 975, 1>>, <<978, 980, 1>>, <<984, 1006, 2>>, <<1012, 1012, 1>>,
    <<1015, 1015, 1>>, <<1017, 1018, 1>>, <<1021, 1071, 1>>,
    <<1120, 1152, 2>>, <<1162, 1214, 2>>, <<1216, 1217, 1>>,
    <<1219, 1229, 2>>, <<1232, 1326, 2>>, <<1329, 1366, 1>>,
    <<4256, 4293, 1>>, <<4295, 4295, 1>>, <<4301, 4301, 1>>,
    <<5024, 5109, 1>>, <<7312, 7354, 1>>, <<7357, 7359, 1>>,
    <<7680, 7828, 2>>, <<7838, 7934, 2>>, <<7944, 7951, 1>>,
    <<7960, 7965, 1>>, <<7976, 7983, 1>>, <<7992, 7999, 1>>,
    <<8008, 8013, 1>>, <<8025, 8031, 2>>, <<8040, 8047, 1>>,
    <<8120, 8123, 1>>, <<8136, 8139, 1>>, <<8152, 8155, 1>>,
    <<8168, 8172, 1>>, <<8184, 8187, 1>>, <<8450, 8450, 1>>,
    <<8455, 8455, 1>>, <<8459, 8461, 1>>, <<8464, 8466, 1>>,
    <<8469, 8469, 1>>, <<8473, 8477, 1>>, <<8484, 8488, 2>>,
    <<8490, 8493, 1>>, <<8496, 8499, 1>>, <<8510, 8511, 1>>,
    <<8517, 8517, 1>>, <<8544, 8559, 1>>, <<8579, 8579, 1>>,
    <<9398, 9423, 1>>, <<11264, 11311, 1>>, <<11360, 11360, 1>>,
    <<11362, 11364, 1>>, <<11367, 11371, 2>>, <<11373, 11376, 1>>,
    <<11378, 11378, 1>>, <<11381, 11381, 1>>, <<11390, 11392, 1>>,
    <<11394, 11490, 2>>, <<11499, 11501, 2>>, <<11506, 11506, 1>>,
    <<42560, 42604, 2>>, <<42624, 42650, 2>>, <<42786, 42798, 2>>,
    <<42802, 42862, 2>>, <<42873, 42875, 2>>, <<42877, 42878, 1>>,
    <<42880, 42886, 2>>, <<42891, 42893, 2>>, <<42896, 42898, 2>>,
    <<42902, 42920, 2>>, <<42922, 42926, 1>>, <<42928, 42932, 1>>,
    <<42934, 42946, 2>>, <<42948, 42951, 1>>, <<42953, 42953, 1>>,
    <<42960, 42960, 1>>, <<42966, 42968, 2>>, <<42997, 42997, 1>>,
    <<65313, 65338, 1>>, <<66560, 66599, 1>>, <<66736, 66771, 1>>,
    <<66928, 66938, 1>>, <<66940, 66954, 1>>, <<66956, 66962, 1>>,
    <<66964, 66965, 1>>, <<68736, 68786, 1>>, <<71840, 71871, 1>>,
    <<93760, 93791, 1>>, <<119808, 119833, 1>>, <<119860, 119885, 1>>,
    <<119912, 119937, 1>>, <<119964, 119964, 1>>, <<119966, 119967, 1>>,
    <<119970, 119970, 1>>, <<119973, 119974, 1>>, <<119977, 119980, 1>>,
    <<119982, 119989, 1>>, <<120016, 120041, 1>>, <<120068, 120069, 1>>,
    <<120071, 120074, 1>>, <<120077, 120084, 1>>, <<120086, 120092, 1>>,
    <<120120, 120121, 1>>, <<120123, 120126, 1>>, <<120128, 120132, 1>>,
    <<120134, 120134, 1>>, <<120138, 120144, 1>>, <<120172, 120197, 1>>,
    <<120224, 120249, 1>>, <<120276, 120301, 1>>, <<120328, 120353, 1>>,
    <<120380, 120405, 1>>, <<120432, 120457, 1>>, <<120488, 120512, 1>>,
    <<120546, 120570, 1>>, <<120604, 120628, 1>>, <<120662, 120686, 1>>,
    <<120720, 120744, 1>>, <<120778, 120778, 1>>, <<125184, 125217, 1>>,
    <<127280, 127305, 1>>, <<127312, 127337, 1>>, <<127344, 127369, 1>> }

\* str.lower from code point 128 on, as <<first, last, step, offset>>: the
\* characters that lower to one other character, which is offset further on
LowerMap ==
  { <<192, 214, 1, 32>>, <<216, 222, 1, 32>>, <<256, 302, 2, 1>>,
    <<306, 310, 2, 1>>, <<313, 327, 2, 1>>, <<330, 374, 2, 1>>,
    <<376, 376, 1, -121>>, <<377, 381, 2, 1>>, <<385, 385, 1, 210>>,
    <<386, 388, 2, 1>>, <<390, 390, 1, 206>>, <<391, 391, 1, 1>>,
    <<393, 394, 1, 205>>, <<395, 395, 1, 1>>, <<398, 398, 1, 79>>,
    <<399, 399, 1, 202>>, <<400, 400, 1, 203>>, <<401, 401, 1, 1>>,
    <<403, 403, 1, 205>>, <<404, 404, 1, 207>>, <<406, 406, 1, 211>>,
    <<407, 407, 1, 209>>, <<408, 408, 1, 1>>, <<412, 412, 1, 211>>,
    <<413, 413, 1, 213>>, <<415, 415, 1, 214>>, <<416, 420, 2, 1>>,
    <<422, 422, 1, 218>>, <<423, 423, 1, 1>>, <<425, 425, 1, 218>>,
    <<428, 428, 1, 1>>, <<430, 430, 1, 218>>, <<431, 431, 1, 1>>,
    <<433, 434, 1, 217>>, <<435, 437, 2, 1>>, <<439, 439, 1, 219>>,
    <<440, 440, 1, 1>>, <<444, 444, 1, 1>>, <<452, 452, 1, 2>>,
    <<453, 453, 1, 1>>, <<455, 455, 1, 2>>, <<456, 456, 1, 1>>,
    <<458, 458, 1, 2>>, <<459, 475, 2, 1>>, <<478, 494, 2, 1>>,
    <<497, 497, 1, 2>>, <<498, 500, 2, 1>>, <<502, 502, 1, -97>>,
    <<503, 503, 1, -56>>, <<504, 542, 2, 1>>, <<544, 544, 1, -130>>,
    <<546, 562, 2, 1>>, <<570, 570, 1, 10795>>, <<571, 571, 1, 1>>,
    <<573, 573, 1, -163>>, <<574, 574, 1, 10792>>, <<577, 577, 1, 1>>,
    <<579, 579, 1, -195>>, <<580, 580, 1, 69>>, <<581, 581, 1, 71>>,
    <<582, 590, 2, 1>>, <<880, 882, 2, 1>>, <<886, 886, 1, 1>>,
    <<895, 895, 1, 116>>, <<902, 902, 1, 38>>, <<904, 906, 1, 37>>,
    <<908, 908, 1, 64>>, <<910, 911, 1, 63>>, <<913, 929, 1, 32>>,
    <<931, 939, 1, 32>>, <<975, 975, 1, 8>>, <<984, 1006, 2, 1>>,
    <<1012, 1012, 1, -60>>, <<1015, 1015, 1, 1>>, <<1017, 1017, 1, -7>>,
    <<1018, 1018, 1, 1>>, <<1021, 1023, 1, -130>>, <<1024, 1039, 1, 80>>,
    <<1040, 1071, 1, 32>>, <<1120, 1152, 2, 1>>, <<1162, 1214, 2, 1>>,
    <<1216, 1216, 1, 15>>, <<1217, 1229, 2, 1>>, <<1232, 1326, 2, 1>>,
    <<1329, 1366, 1, 48>>, <<4256, 4293, 1, 7264>>, <<4295, 4295, 1, 7264>>,
    <<4301, 4301, 1, 7264>>, <<5024, 5103, 1, 38864>>, <<5104, 5109, 1, 8>>,
    <<7312, 7354, 1, -3008>>, <<7357, 7359, 1, -3008>>, <<7680, 7828, 2, 1>>,
    <<7838, 7838, 1, -7615>>, <<7840, 7934, 2, 1>>, <<7944, 7951, 1, -8>>,
    <<7960, 7965, 1, -8>>, <<7976, 7983, 1, -8>>, <<7992, 7999, 1, -8>>,
    <<8008, 8013, 1, -8>>, <<8025, 8031, 2, -8>>, <<8040, 8047, 1, -8>>,
    <<8072, 8079, 1, -8>>, <<8088, 8095, 1, -8>>, <<8104, 8111, 1, -8>>,
    <<8120, 8121, 1, -8>>, <<8122, 8123, 1, -74>>, <<8124, 8124, 1, -9>>,
    <<8136, 8139, 1, -86>>, <<8140, 8140, 1, -9>>, <<8152, 8153, 1, -8>>,
    <<8154, 8155, 1, -100>>, <<8168, 8169, 1, -8>>, <<8170, 8171, 1, -112>>,
    <<8172, 8172, 1, -7>>, <<8184, 8185, 1, -128>>, <<8186, 8187, 1, -126>>,
    <<8188, 8188, 1, -9>>, <<8486, 8486, 1, -7517>>, <<8490, 8490, 1, -8383>>,
    <<8491, 8491, 1, -8262>>, <<8498, 8498, 1, 28>>, <<8544, 8559, 1, 16>>,
    <<8579, 8579, 1, 1>>, <<9398, 9423, 1, 26>>, <<11264, 11311, 1, 48>>,
    <<11360, 11360, 1, 1>>, <<11362, 11362, 1, -10743>>,
    <<11363, 11363, 1, -3814>>, <<11364, 11364, 1, -10727>>,
    <<11367, 11371, 2, 1>>, <<11373, 11373, 1, -10780>>,
    <<11374, 11374, 1, -10749>>, <<11375, 11375, 1, -10783>>,
    <<11376, 11376, 1, -10782>>, <<11378, 11378, 1, 1>>,
    <<11381, 11381, 1, 1>>, <<11390, 11391, 1, -10815>>,
    <<11392, 11490, 2, 1>>, <<11499, 11501, 2, 1>>, <<11506, 11506, 1, 1>>,
    <<42560, 42604, 2, 1>>, <<42624, 42650, 2, 1>>, <<42786, 42798, 2, 1>>,
    <<42802, 42862, 2, 1>>, <<42873, 42875, 2, 1>>,
    <<42877, 42877, 1, -35332>>, <<42878, 42886, 2, 1>>,
    <<42891, 42891, 1, 1>>, <<42893, 42893, 1, -42280>>,
    <<42896, 42898, 2, 1>>, <<42902, 42920, 2, 1>>,
    <<42922, 42922, 1, -42308>>, <<42923, 42923, 1, -42319>>,
    <<42924, 42924, 1, -42315>>, <<42925, 42925, 1, -42305>>,
    <<42926, 42926, 1, -42308>>, <<42928, 42928, 1, -42258>>,
    <<42929, 42929, 1, -42282>>, <<42930, 42930, 1, -42261>>,
    <<42931, 42931, 1, 928>>, <<42932, 42946, 2, 1>>,
    <<42948, 42948, 1, -48>>, <<42949, 42949, 1, -42307>>,
    <<42950, 42950, 1, -35384>>, <<42951, 42953, 2, 1>>,
    <<42960, 42960, 1, 1>>, <<42966, 42968, 2, 1>>, <<42997, 42997, 1, 1>>,
    <<65313, 65338, 1, 32>>, <<66560, 66599, 1, 40>>, <<66736, 66771, 1, 40>>,
    <<66928, 66938, 1, 39>>, <<66940, 66954, 1, 39>>, <<66956, 66962, 1, 39>>,
    <<66964, 66965, 1, 39>>, <<68736, 68786, 1, 64>>, <<71840, 71871, 1, 32>>,
    <<93760, 93791, 1, 32>>, <<125184, 125217, 1, 34>> }

\* the cased characters from code point 128 on
CasedRanges ==
  { <<170, 170, 1>>, <<181, 181, 1>>, <<186, 186, 1>>, <<192, 214, 1>>,
    <<216, 246, 1>>, <<248, 442, 1>>, <<444, 447, 1>>, <<452, 659, 1>>,
    <<661, 696, 1>>, <<704, 705, 1>>, <<736, 740, 1>>, <<837, 837, 1>>,
    <<880, 883, 1>>, <<886, 887, 1>>, <<890, 893, 1>>, <<895, 895, 1>>,
    <<902, 902, 1>>, <<904, 906, 1>>, <<908, 908, 1>>, <<910, 929, 1>>,
    <<931, 1013, 1>>, <<1015, 1153, 1>>, <<1162, 1327, 1>>, <<1329, 1366, 1>>,
    <<1376, 1416, 1>>, <<4256, 4293, 1>>, <<4295, 4295, 1>>,
    <<4301, 4301, 1>>, <<4304, 4346, 1>>, <<4349, 4351, 1>>,
    <<5024, 5109, 1>>, <<5112, 5117, 1>>, <<7296, 7304, 1>>,
    <<7312, 7354, 1>>, <<7357, 7359, 1>>, <<7424, 7615, 1>>,
    <<7680, 7957, 1>>, <<7960, 7965, 1>>, <<7968, 8005, 1>>,
    <<8008, 8013, 1>>, <<8016, 8023, 1>>, <<8025, 8029, 2>>,
    <<8031, 8061, 1>>, <<8064, 8116, 1>>, <<8118, 8124, 1>>,
    <<8126, 8126, 1>>, <<8130, 8132, 1>>, <<8134, 8140, 1>>,
    <<8144, 8147, 1>>, <<8150, 8155, 1>>, <<8160, 8172, 1>>,
    <<8178, 8180, 1>>, <<8182, 8188, 1>>, <<8305, 8305, 1>>,
    <<8319, 8319, 1>>, <<8336, 8348, 1>>, <<8450, 8450, 1>>,
    <<8455, 8455, 1>>, <<8458, 8467, 1>>, <<8469, 8469, 1>>,
    <<8473, 8477, 1>>, <<8484, 8488, 2>>, <<8490, 8493, 1>>,
    <<8495, 8500, 1>>, <<8505, 8505, 1>>, <<8508, 8511, 1>>,
    <<8517, 8521, 1>>, <<8526, 8526, 1>>, <<8544, 8575, 1>>,
    <<8579, 8580, 1>>, <<9398, 9449, 1>>, <<11264, 11492, 1>>,
    <<11499, 11502, 1>>, <<11506, 11507, 1>>, <<11520, 11557, 1>>,
    <<11559, 11559, 1>>, <<11565, 11565, 1>>, <<42560, 42605, 1>>,
    <<42624, 42653, 1>>, <<42786, 42887, 1>>, <<42891, 42894, 1>>,
    <<42896, 42954, 1>>, <<42960, 42961, 1>>, <<42963, 42963, 1>>,
    <<42965, 42969, 1>>, <<42997, 42998, 1>>, <<43000, 43002, 1>>,
    <<43824, 43866, 1>>, <<43868, 43880, 1>>, <<43888, 43967, 1>>,
    <<64256, 64262, 1>>, <<64275, 64279, 1>>, <<65313, 65338, 1>>,
    <<65345, 65370, 1>>, <<66560, 66639, 1>>, <<66736, 66771, 1>>,
    <<66776, 66811, 1>>, <<66928, 66938, 1>>, <<66940, 66954, 1>>,
    <<66956, 66962, 1>>, <<66964, 66965, 1>>, <<66967, 66977, 1>>,
    <<66979, 66993, 1>>, <<66995, 67001, 1>>, <<67003, 67004, 1>>,
    <<67456, 67456, 1>>, <<67459, 67461, 1>>, <<67463, 67504, 1>>,
    <<67506, 67514, 1>>, <<68736, 68786, 1>>, <<68800, 68850, 1>>,
    <<71840, 71903, 1>>, <<93760, 93823, 1>>, <<119808, 119892, 1>>,
    <<119894, 119964, 1>>, <<119966, 119967, 1>>, <<119970, 119970, 1>>,
    <<119973, 119974, 1>>, <<119977, 119980, 1>>, <<119982, 119993, 1>>,
    <<119995, 119995, 1>>, <<119997, 120003, 1>>, <<120005, 120069, 1>>,
    <<120071, 120074, 1>>, <<120077, 120084, 1>>, <<120086, 120092, 1>>,
    <<120094, 120121, 1>>, <<120123, 120126, 1>>, <<120128, 120132, 1>>,
    <<120134, 120134, 1>>, <<120138, 120144, 1>>, <<120146, 120485, 1>>,
    <<120488, 120512, 1>>, <<120514, 120538, 1>>, <<120540, 120570, 1>>,
    <<120572, 120596, 1>>, <<120598, 120628, 1>>, <<120630, 120654, 1>>,
    <<120656, 120686, 1>>, <<120688, 120712, 1>>, <<120714, 120744, 1>>,
    <<120746, 120770, 1>>, <<120772, 120779, 1>>, <<122624, 122633, 1>>,
    <<122635, 122654, 1>>, <<125184, 125251, 1>>, <<127280, 127305, 1>>,
    <<127312, 127337, 1>>, <<127344, 127369, 1>> }

\* the case-ignorable characters from code point 128 on
CaseIgnorableRanges ==
  { <<168, 168, 1>>, <<173, 175, 2>>, <<180, 180, 1>>, <<183, 184, 1>>,
    <<688, 879, 1>>, <<884, 885, 1>>, <<890, 890, 1>>, <<900, 901, 1>>,
    <<903, 903, 1>>, <<1155, 1161, 1>>, <<1369, 1369, 1>>, <<1375, 1375, 1>>,
    <<1425, 1469, 1>>, <<1471, 1471, 1>>, <<1473, 1474, 1>>,
    <<1476, 1477, 1>>, <<1479, 1479, 1>>, <<1524, 1524, 1>>,
    <<1536, 1541, 1>>, <<1552, 1562, 1>>, <<1564, 1564, 1>>,
    <<1600, 1600, 1>>, <<1611, 1631, 1>>, <<1648, 1648, 1>>,
    <<1750, 1757, 1>>, <<1759, 1768, 1>>, <<1770, 1773, 1>>,
    <<1807, 1809, 2>>, <<1840, 1866, 1>>, <<1958, 1968, 1>>,
    <<2027, 2037, 1>>, <<2042, 2042, 1>>, <<2045, 2045, 1>>,
    <<2070, 2093, 1>>, <<2137, 2139, 1>>, <<2184, 2184, 1>>,
    <<2192, 2193, 1>>, <<2200, 2207, 1>>, <<2249, 2306, 1>>,
    <<2362, 2364, 2>>, <<2369, 2376, 1>>, <<2381, 2381, 1>>,
    <<2385, 2391, 1>>, <<2402, 2403, 1>>, <<2417, 2417, 1>>,
    <<2433, 2433, 1>>, <<2492, 2492, 1>>, <<2497, 2500, 1>>,
    <<2509, 2509, 1>>, <<2530, 2531, 1>>, <<2558, 2558, 1>>,
    <<2561, 2562, 1>>, <<2620, 2620, 1>>, <<2625, 2626, 1>>,
    <<2631, 2632, 1>>, <<2635, 2637, 1>>, <<2641, 2641, 1>>,
    <<2672, 2673, 1>>, <<2677, 2677, 1>>, <<2689, 2690, 1>>,
    <<2748, 2748, 1>>, <<2753, 2757, 1>>, <<2759, 2760, 1>>,
    <<2765, 2765, 1>>, <<2786, 2787, 1>>, <<2810, 2815, 1>>,
    <<2817, 2817, 1>>, <<2876, 2876, 1>>, <<2879, 2879, 1>>,
    <<2881, 2884, 1>>, <<2893, 2893, 1>>, <<2901, 2902, 1>>,
    <<2914, 2915, 1>>, <<2946, 2946, 1>>, <<3008, 3008, 1>>,
    <<3021, 3021, 1>>, <<3072, 3072, 1>>, <<3076, 3076, 1>>,
    <<3132, 3132, 1>>, <<3134, 3136, 1>>, <<3142, 3144, 1>>,
    <<3146, 3149, 1>>, <<3157, 3158, 1>>, <<3170, 3171, 1>>,
    <<3201, 3201, 1>>, <<3260, 3260, 1>>, <<3263, 3263, 1>>,
    <<3270, 3270, 1>>, <<3276, 3277, 1>>, <<3298, 3299, 1>>,
    <<3328, 3329, 1>>, <<3387, 3388, 1>>, <<3393, 3396, 1>>,
    <<3405, 3405, 1>>, <<3426, 3427, 1>>, <<3457, 3457, 1>>,
    <<3530, 3530, 1>>, <<3538, 3540, 1>>, <<3542, 3542, 1>>,
    <<3633, 3633, 1>>, <<3636, 3642, 1>>, <<3654, 3662, 1>>,
    <<3761, 3761, 1>>, <<3764, 3772, 1>>, <<3782, 3782, 1>>,
    <<3784, 3789, 1>>, <<3864, 3865, 1>>, <<3893, 3897, 2>>,
    <<3953, 3966, 1>>, <<3968, 3972, 1>>, <<3974, 3975, 1>>,
    <<3981, 3991, 1>>, <<3993, 4028, 1>>, <<4038, 4038, 1>>,
    <<4141, 4144, 1>>, <<4146, 4151, 1>>, <<4153, 4154, 1>>,
    <<4157, 4158, 1>>, <<4184, 4185, 1>>, <<4190, 4192, 1>>,
    <<4209, 4212, 1>>, <<4226, 4226, 1>>, <<4229, 4230, 1>>,
    <<4237, 4237, 1>>, <<4253, 4253, 1>>, <<4348, 4348, 1>>,
    <<4957, 4959, 1>>, <<5906, 5908, 1>>, <<5938, 5939, 1>>,
    <<5970, 5971, 1>>, <<6002, 6003, 1>>, <<6068, 6069, 1>>,
    <<6071, 6077, 1>>, <<6086, 6086, 1>>, <<6089, 6099, 1>>,
    <<6103, 6103, 1>>, <<6109, 6109, 1>>, <<6155, 6159, 1>>,
    <<6211, 6211, 1>>, <<6277, 6278, 1>>, <<6313, 6313, 1>>,
    <<6432, 6434, 1>>, <<6439, 6440, 1>>, <<6450, 6450, 1>>,
    <<6457, 6459, 1>>, <<6679, 6680, 1>>, <<6683, 6683, 1>>,
    <<6742, 6742, 1>>, <<6744, 6750, 1>>, <<6752, 6754, 2>>,
    <<6757, 6764, 1>>, <<6771, 6780, 1>>, <<6783, 6783, 1>>,
    <<6823, 6823, 1>>, <<6832, 6862, 1>>, <<6912, 6915, 1>>,
    <<6964, 6964, 1>>, <<6966, 6970, 1>>, <<6972, 6972, 1>>,
    <<6978, 6978, 1>>, <<7019, 7027, 1>>, <<7040, 7041, 1>>,
    <<7074, 7077, 1>>, <<7080, 7081, 1>>, <<7083, 7085, 1>>,
    <<7142, 7142, 1>>, <<7144, 7145, 1>>, <<7149, 7149, 1>>,
    <<7151, 7153, 1>>, <<7212, 7219, 1>>, <<7222, 7223, 1>>,
    <<7288, 7293, 1>>, <<7376, 7378, 1>>, <<7380, 7392, 1>>,
    <<7394, 7400, 1>>, <<7405, 7405, 1>>, <<7412, 7412, 1>>,
    <<7416, 7417, 1>>, <<7468, 7530, 1>>, <<7544, 7544, 1>>,
    <<7579, 7679, 1>>, <<8125, 8125, 1>>, <<8127, 8129, 1>>,
    <<8141, 8143, 1>>, <<8157, 8159, 1>>, <<8173, 8175, 1>>,
    <<8189, 8190, 1>>, <<8203, 8207, 1>>, <<8216, 8217, 1>>,
    <<8228, 8228, 1>>, <<8231, 8231, 1>>, <<8234, 8238, 1>>,
    <<8288, 8292, 1>>, <<8294, 8303, 1>>, <<8305, 8305, 1>>,
    <<8319, 8319, 1>>, <<8336, 8348, 1>>, <<8400, 8432, 1>>,
    <<11388, 11389, 1>>, <<11503, 11505, 1>>, <<11631, 11631, 1>>,
    <<11647, 11647, 1>>, <<11744, 11775, 1>>, <<11823, 11823, 1>>,
    <<12293, 12293, 1>>, <<12330, 12333, 1>>, <<12337, 12341, 1>>,
    <<12347, 12347, 1>>, <<12441, 12446, 1>>, <<12540, 12542, 1>>,
    <<40981, 40981, 1>>, <<42232, 42237, 1>>, <<42508, 42508, 1>>,
    <<42607, 42610, 1>>, <<42612, 42621, 1>>, <<42623, 42623, 1>>,
    <<42652, 42655, 1>>, <<42736, 42737, 1>>, <<42752, 42785, 1>>,
    <<42864, 42864, 1>>, <<42888, 42890, 1>>, <<42994, 42996, 1>>,
    <<43000, 43001, 1>>, <<43010, 43010, 1>>, <<43014, 43014, 1>>,
    <<43019, 43019, 1>>, <<43045, 43046, 1>>, <<43052, 43052, 1>>,
    <<43204, 43205, 1>>, <<43232, 43249, 1>>, <<43263, 43263, 1>>,
    <<43302, 43309, 1>>, <<43335, 43345, 1>>, <<43392, 43394, 1>>,
    <<43443, 43443, 1>>, <<43446, 43449, 1>>, <<43452, 43453, 1>>,
    <<43471, 43471, 1>>, <<43493, 43494, 1>>, <<43561, 43566, 1>>,
    <<43569, 43570, 1>>, <<43573, 43574, 1>>, <<43587, 43587, 1>>,
    <<43596, 43596, 1>>, <<43632, 43632, 1>>, <<43644, 43644, 1>>,
    <<43696, 43696, 1>>, <<43698, 43700, 1>>, <<43703, 43704, 1>>,
    <<43710, 43711, 1>>, <<43713, 43713, 1>>, <<43741, 43741, 1>>,
    <<43756, 43757, 1>>, <<43763, 43764, 1>>, <<43766, 43766, 1>>,
    <<43867, 43871, 1>>, <<43881, 43883, 1>>, <<44005, 44005, 1>>,
    <<44008, 44008, 1>>, <<44013, 44013, 1>>, <<64286, 64286, 1>>,
    <<64434, 64450, 1>>, <<65024, 65039, 1>>, <<65043, 65043, 1>>,
    <<65056, 65071, 1>>, <<65106, 65106, 1>>, <<65109, 65109, 1>>,
    <<65279, 65279, 1>>, <<65287, 65287, 1>>, <<65294, 65294, 1>>,
    <<65306, 65306, 1>>, <<65342, 65344, 2>>, <<65392, 65392, 1>>,
    <<65438, 65439, 1>>, <<65507, 65507, 1>>, <<65529, 65531, 1>>,
    <<66045, 66045, 1>>, <<66272, 66272, 1>>, <<66422, 66426, 1>>,
    <<67456, 67461, 1>>, <<67463, 67504, 1>>, <<67506, 67514, 1>>,
    <<68097, 68099, 1>>, <<68101, 68102, 1>>, <<68108, 68111, 1>>,
    <<68152, 68154, 1>>, <<68159, 68159, 1>>, <<68325, 68326, 1>>,
    <<68900, 68903, 1>>, <<69291, 69292, 1>>, <<69446, 69456, 1>>,
    <<69506, 69509, 1>>, <<69633, 69633, 1>>, <<69688, 69702, 1>>,
    <<69744, 69744, 1>>, <<69747, 69748, 1>>, <<69759, 69761, 1>>,
    <<69811, 69814, 1>>, <<69817, 69818, 1>>, <<69821, 69821, 1>>,
    <<69826, 69826, 1>>, <<69837, 69837, 1>>, <<69888, 69890, 1>>,
    <<69927, 69931, 1>>, <<69933, 69940, 1>>, <<70003, 70003, 1>>,
    <<70016, 70017, 1>>, <<70070, 70078, 1>>, <<70089, 70092, 1>>,
    <<70095, 70095, 1>>, <<70191, 70193, 1>>, <<70196, 70196, 1>>,
    <<70198, 70199, 1>>, <<70206, 70206, 1>>, <<70367, 70367, 1>>,
    <<70371, 70378, 1>>, <<70400, 70401, 1>>, <<70459, 70460, 1>>,
    <<70464, 70464, 1>>, <<70502, 70508, 1>>, <<70512, 70516, 1>>,
    <<70712, 70719, 1>>, <<70722, 70724, 1>>, <<70726, 70726, 1>>,
    <<70750, 70750, 1>>, <<70835, 70840, 1>>, <<70842, 70842, 1>>,
    <<70847, 70848, 1>>, <<70850, 70851, 1>>, <<71090, 71093, 1>>,
    <<71100, 71101, 1>>, <<71103, 71104, 1>>, <<71132, 71133, 1>>,
    <<71219, 71226, 1>>, <<71229, 71229, 1>>, <<71231, 71232, 1>>,
    <<71339, 71341, 2>>, <<71344, 71349, 1>>, <<71351, 71351, 1>>,
    <<71453, 71455, 1>>, <<71458, 71461, 1>>, <<71463, 71467, 1>>,
    <<71727, 71735, 1>>, <<71737, 71738, 1>>, <<71995, 71996, 1>>,
    <<71998, 71998, 1>>, <<72003, 72003, 1>>, <<72148, 72151, 1>>,
    <<72154, 72155, 1>>, <<72160, 72160, 1>>, <<72193, 72202, 1>>,
    <<72243, 72248, 1>>, <<72251, 72254, 1>>, <<72263, 72263, 1>>,
    <<72273, 72278, 1>>, <<72281, 72283, 1>>, <<72330, 72342, 1>>,
    <<72344, 72345, 1>>, <<72752, 72758, 1>>, <<72760, 72765, 1>>,
    <<72767, 72767, 1>>, <<72850, 72871, 1>>, <<72874, 72880, 1>>,
    <<72882, 72883, 1>>, <<72885, 72886, 1>>, <<73009, 73014, 1>>,
    <<73018, 73018, 1>>, <<73020, 73021, 1>>, <<73023, 73029, 1>>,
    <<73031, 73031, 1>>, <<73104, 73105, 1>>, <<73109, 73111, 2>>,
    <<73459, 73460, 1>>, <<78896, 78904, 1>>, <<92912, 92916, 1>>,
    <<92976, 92982, 1>>, <<92992, 92995, 1>>, <<94031, 94031, 1>>,
    <<94095, 94111, 1>>, <<94176, 94177, 1>>, <<94179, 94180, 1>>,
    <<110576, 110579, 1>>, <<110581, 110587, 1>>, <<110589, 110590, 1>>,
    <<113821, 113822, 1>>, <<113824, 113827, 1>>, <<118528, 118573, 1>>,
    <<118576, 118598, 1>>, <<119143, 119145, 1>>, <<119155, 119170, 1>>,
    <<119173, 119179, 1>>, <<119210, 119213, 1>>, <<119362, 119364, 1>>,
    <<121344, 121398, 1>>, <<121403, 121452, 1>>, <<121461, 121461, 1>>,
    <<121476, 121476, 1>>, <<121499, 121503, 1>>, <<121505, 121519, 1>>,
    <<122880, 122886, 1>>, <<122888, 122904, 1>>, <<122907, 122913, 1>>,
    <<122915, 122916, 1>>, <<122918, 122922, 1>>, <<123184, 123197, 1>>,
    <<123566, 123566, 1>>, <<123628, 123631, 1>>, <<125136, 125142, 1>>,
    <<125252, 125259, 1>>, <<127995, 127999, 1>>, <<917505, 917505, 1>>,
    <<917536, 917631, 1>>, <<917760, 917999, 1>> }

\* c is a code point of one of the progressions <<first, last, step>>
InRanges(c, ranges) ==
  \E r \in ranges : r[1] <= c /\ c <= r[2] /\ (c - r[1]) % r[3] = 0

IsAsciiUpper(c) == c >= 65 /\ c <= 90                   \* [A-Z]
IsAsciiLower(c) == c >= 97 /\ c <= 122                  \* [a-z]
IsAsciiDigit(c) == c >= 48 /\ c <= 57                   \* 0-9

\* str.isupper of one character
IsUpper(c) == IF c < 128 THEN IsAsciiUpper(c) ELSE InRanges(c, UpperRanges)
\* \d
IsDigit(c) ==
  IF c < 128 THEN IsAsciiDigit(c)
  ELSE \E r \in DigitRanges : r[1] <= c /\ c <= r[2]
\* the value int() gives the digit c
DigitValue(c) ==
  IF c < 128 THEN c - 48
  ELSE (c - (CHOOSE r \in DigitRanges : r[1] <= c /\ c <= r[2])[1]) % 10
\* \s, and the separators of str.split()
IsSpace(c) == c \in SpaceChars
\* \w
IsWordCh(c) ==
  IF c < 128
  THEN IsAsciiUpper(c) \/ IsAsciiLower(c) \/ IsAsciiDigit(c) \/ c = 95
  ELSE InRanges(c, WordRanges)
\* the properties Cased and Case_Ignorable, which str.lower consults
IsCased(c) ==
  IF c < 128 THEN IsAsciiUpper(c) \/ IsAsciiLower(c)
  ELSE InRanges(c, CasedRanges)
IsCaseIgnorable(c) ==
  IF c < 128 THEN c \in {39, 46, 58, 94, 96}
  ELSE InRanges(c, CaseIgnorableRanges)

\* str.lower of one character out of context: U+0130 gives two code points
LowerOffset(c, rs) == IF rs = {} THEN <<c>> ELSE <<c + (CHOOSE r \in rs : TRUE)[4]>>
LowerCh(c) ==
  IF c < 128 THEN <<IF IsAsciiUpper(c) THEN c + 32 ELSE c>>
  ELSE IF c = 304 THEN <<105, 775>>
  ELSE LowerOffset(c, {r \in LowerMap : /\ r[1] <= c /\ c <= r[2]
                                        /\ (c - r[1]) % r[3] = 0})

\* str.lower of U+03A3: the final sigma after a cased letter and not before
\* one, the case-ignorable characters in between skipped
FinalSigma(s, i) ==
  /\ \E j \in 1..(i - 1) :
       /\ IsCased(s[j]) /\ ~IsCaseIgnorable(s[j])
       /\ \A k \in (j + 1)..(i - 1) : IsCaseIgnorable(s[k])
  /\ ~\E j \in (i + 1)..Len(s) :
       /\ IsCased(s[j]) /\ ~IsCaseIgnorable(s[j])
       /\ \A k \in (i + 1)..(j - 1) : IsCaseIgnorable(s[k])

\* str.lower of the character at position i of s
LowerAt(s, i) ==
  IF s[i] = 931 THEN <<IF FinalSigma(s, i) THEN 962 ELSE 963>>
  ELSE LowerCh(s[i])

\* str.lower where the characters U+0130 stand at the positions dotted: each
\* gives two code points, every other character one
LowerWide(s, dotted) ==
  LET first(i) == i + Cardinality({d \in dotted : d < i})
      src(k) == Max({i \in 1..Len(s) : first(i) <= k})
  IN  [k \in 1..(Len(s) + Cardinality(dotted)) |->
         LowerAt(s, src(k))[k - first(src(k)) + 1]]
LowerOf(s, dotted) ==
  IF dotted = {} THEN [i \in 1..Len(s) |-> LowerAt(s, i)[1]]
  ELSE LowerWide(s, dotted)
\* str.lower
Lower(s) == LowerOf(s, {i \in 1..Len(s) : s[i] = 304})

\* the literal lit stands in s at position i
AtLit(s, i, lit) ==
  /\ i >= 1
  /\ i + Len(lit) - 1 <= Len(s)
  /\ \A k \in 1..Len(lit) : s[i + k - 1] = lit[k]

\* Python's `lit in s`
Contains(s, lit) == \E i \in 1..(Len(s) - Len(lit) + 1) : AtLit(s, i, lit)

\* \b just before position i (i = Len(s) + 1 is the end of the string)
IsWordAt(s, k) == k >= 1 /\ k <= Len(s) /\ IsWordCh(s[k])
WordBoundary(s, i) == IsWordAt(s, i - 1) # IsWordAt(s, i)

\* the positions right after a non-empty run of whitespace starting at p: \s+
SpaceEnds(s, p) ==
  IF p > Len(s) \/ ~IsSpace(s[p]) THEN {}
  ELSE {j \in (p + 1)..(Len(s) + 1) : \A k \in p..(j - 1) : IsSpace(s[k])}

\* the last positions of the matches of [A-Z][a-z]+ starting at j
CapWordEnds(s, j) ==
  IF j + 1 > Len(s) \/ ~IsAsciiUpper(s[j]) \/ ~IsAsciiLower(s[j + 1]) THEN {}
  ELSE {e \in (j + 1)..Len(s) : \A k \in (j + 1)..e : IsAsciiLower(s[k])}

\* the positions of s, and the end of s, at which something can start
Positions(s) == 1..(Len(s) + 1)

(***************************************************************************)
(* SimpleTripParser.__init__: the known cities, in list order              *)
(***************************************************************************)
cities ==
  <<
    <<77, 101, 108, 98, 111, 117, 114, 110, 101>>,  \* 1 "Melbourne"
    <<83, 121, 100, 110, 101, 121>>,  \* 2 "Sydney"
    <<66, 114, 105, 115, 98, 97, 110, 101>>,  \* 3 "Brisbane"
    <<80, 101, 114, 116, 104>>,  \* 4 "Perth"
    <<65, 100, 101, 108, 97, 105, 100, 101>>,  \* 5 "Adelaide"
    <<68, 97, 114, 119, 105, 110>>,  \* 6 "Darwin"
    <<67, 97, 110, 98, 101, 114, 114, 97>>,  \* 7 "Canberra"
    <<71, 111, 108, 100, 32, 67, 111, 97, 115, 116>>,  \* 8 "Gold Coast"
    <<67, 97, 105, 114, 110, 115>>,  \* 9 "Cairns"
    <<72, 111, 98, 97, 114, 116>>,  \* 10 "Hobart"
    <<78, 101, 119, 99, 97, 115, 116, 108, 101>>,  \* 11 "Newcastle"
    <<87, 111, 108, 108, 111, 110, 103, 111, 110, 103>>,  \* 12 "Wollongong"
    <<84, 111, 107, 121, 111>>,  \* 13 "Tokyo"
    <<79, 115, 97, 107, 97>>,  \* 14 "Osaka"
    <<75, 121, 111, 116, 111>>,  \* 15 "Kyoto"
    <<83, 101, 111, 117, 108>>,  \* 16 "Seoul"
    <<66, 97, 110, 103, 107, 111, 107>>,  \* 17 "Bangkok"
    <<83, 105, 110, 103, 97, 112, 111, 114, 101>>,  \* 18 "Singapore"
    <<72, 111, 110, 103, 32, 75, 111, 110, 103>>,  \* 19 "Hong Kong"
    <<83, 104, 97, 110, 103, 104, 97, 105>>,  \* 20 "Shanghai"
    <<66, 101, 105, 106, 105, 110, 103>>,  \* 21 "Beijing"
    <<84, 97, 105, 112, 101, 105>>,  \* 22 "Taipei"
    <<77, 97, 110, 105, 108, 97>>,  \* 23 "Manila"
    <<74, 97, 107, 97, 114, 116, 97>>,  \* 24 "Jakarta"
    <<76, 111, 110, 100, 111, 110>>,  \* 25 "London"
    <<80, 97, 114, 105, 115>>,  \* 26 "Paris"
    <<66, 101, 114, 108, 105, 110>>,  \* 27 "Berlin"
    <<82, 111, 109, 101>>,  \* 28 "Rome"
    <<66, 97, 114, 99, 101, 108, 111, 110, 97>>,  \* 29 "Barcelona"
    <<65, 109, 115, 116, 101, 114, 100, 97, 109>>,  \* 30 "Amsterdam"
    <<77, 97, 100, 114, 105, 100>>,  \* 31 "Madrid"
    <<86, 105, 101, 110, 110, 97>>,  \* 32 "Vienna"
    <<80, 114, 97, 103, 117, 101>>,  \* 33 "Prague"
    <<66, 117, 100, 97, 112, 101, 115, 116>>,  \* 34 "Budapest"
    <<65, 116, 104, 101, 110, 115>>,  \* 35 "Athens"
    <<76, 105, 115, 98, 111, 110>>,  \* 36 "Lisbon"
    <<78, 101, 119, 32, 89, 111, 114, 107>>,  \* 37 "New York"
    <<76, 111, 115, 32, 65, 110, 103, 101, 108, 101, 115>>,  \* 38 "Los Angeles"
    <<83, 97, 110, 32, 70, 114, 97, 110, 99, 105, 115, 99, 111>>,  \* 39 "San Francisco"
    <<67, 104, 105, 99, 97, 103, 111>>,  \* 40 "Chicago"
    <<77, 105, 97, 109, 105>>,  \* 41 "Miami"
    <<66, 111, 115, 116, 111, 110>>,  \* 42 "Boston"
    <<84, 111, 114, 111, 110, 116, 111>>,  \* 43 "Toronto"
    <<86, 97, 110, 99, 111, 117, 118, 101, 114>>,  \* 44 "Vancouver"
    <<77, 101, 120, 105, 99, 111, 32, 67, 105, 116, 121>>,  \* 45 "Mexico City"
    <<66, 117, 101, 110, 111, 115, 32, 65, 105, 114, 101, 115>>,  \* 46 "Buenos Aires"
    <<82, 105, 111, 32, 100, 101, 32, 74, 97, 110, 101, 105, 114, 111>>,  \* 47 "Rio de Janeiro"
    <<68, 117, 98, 97, 105>>,  \* 48 "Dubai"
    <<67, 97, 105, 114, 111>>,  \* 49 "Cairo"
    <<67, 97, 112, 101, 32, 84, 111, 119, 110>>,  \* 50 "Cape Town"
    <<65, 117, 99, 107, 108, 97, 110, 100>>,  \* 51 "Auckland"
    <<87, 101, 108, 108, 105, 110, 103, 116, 111, 110>>  \* 52 "Wellington"
  >>

\* the instance SimpleTripParser() constructs
SimpleTripParser == [cities |-> cities]

(***************************************************************************)
(* SimpleTripParser._extract_city                                          *)
(***************************************************************************)
\* rule 1, one city: `city.lower() in query_lower`, then \bcity\b
WholeWord(query_lower, city_lower) ==
  /\ Contains(query_lower, city_lower)
  /\ \E i \in 1..Len(query_lower) :
       /\ WordBoundary(query_lower, i)
       /\ AtLit(query_lower, i, city_lower)
       /\ WordBoundary(query_lower, i + Len(city_lower))
KnownCityMatch(city, query_lower) == WholeWord(query_lower, Lower(city))

\* rule 1: the first city of the list that matches
KnownCityIn(cs, query_lower) ==
  FirstSomeOf([k \in 1..Len(cs) |->
                 IF KnownCityMatch(cs[k], query_lower) THEN Some(cs[k]) ELSE None])
KnownCity(cs, query) == KnownCityIn(cs, Lower(query))

CuesBefore ==
  << <<105, 110>>,                                                   \* in
     <<116, 111>>,                                                   \* to
     <<118, 105, 115, 105, 116, 105, 110, 103>>,                     \* visiting
     <<103, 111, 105, 110, 103, 32, 116, 111>>,                      \* going to
     <<116, 114, 97, 118, 101, 108, 105, 110, 103, 32, 116, 111>> >> \* traveling to
CuesAfter ==
  << <<102, 111, 114>>,                                              \* for
     <<102, 114, 111, 109>>,                                         \* from
     <<115, 116, 97, 114, 116, 105, 110, 103>> >>                    \* starting

StopList ==
  {
    <<110, 111, 118>>,        \* nov
    <<100, 101, 99>>,         \* dec
    <<106, 97, 110>>,         \* jan
    <<102, 101, 98>>,         \* feb
    <<109, 97, 114>>,         \* mar
    <<97, 112, 114>>,         \* apr
    <<109, 97, 121>>,         \* may
    <<106, 117, 110>>,        \* jun
    <<106, 117, 108>>,        \* jul
    <<97, 117, 103>>,         \* aug
    <<115, 101, 112>>,        \* sep
    <<111, 99, 116>>,         \* oct
    <<116, 104, 101>>,        \* the
    <<97, 110, 100>>,         \* and
    <<102, 111, 114>>,        \* for
    <<119, 105, 116, 104>>,   \* with
    <<102, 114, 111, 109>>    \* from
  }

\* the match of [A-Z][a-z]+(?:\s+[A-Z][a-z]+)? starting at j that the regex
\* engine settles on when the rest of the pattern matches at the positions
\* tail: the longest first word, then the optional second word before its
\* omission, the longest second word first; None when there is no match
CaptureBest(s, j, ok) == IF ok = {} THEN None ELSE Some(SubSeq(s, j, Max(ok)))
CaptureEnds(s, e1) ==
  {e1} \cup UNION {CapWordEnds(s, p) : p \in SpaceEnds(s, e1 + 1)}
Capture(s, j, tail) ==
  LastSomeOf([e1 \in CapWordEnds(s, j) |->
                CaptureBest(s, j, {e \in CaptureEnds(s, e1) : e + 1 \in tail})])

\* one alternative of the cue at i, then \s+, then the capture
CueThenCity(query, i, cue) ==
  IF ~AtLit(query, i, cue) THEN None
  ELSE LastSomeOf([j \in SpaceEnds(query, i + Len(cue)) |->
                     Capture(query, j, Positions(query))])

\* \b(?:in|to|visiting|going to|traveling to)\s+(<capture>) at position i
CueThenCityAt(query, i) ==
  IF ~WordBoundary(query, i) THEN None
  ELSE FirstSomeOf([a \in 1..Len(CuesBefore) |->
                      CueThenCity(query, i, CuesBefore[a])])

\* the positions where \s+(?:for|from|starting) matches
CueAfter(query) ==
  {p \in Positions(query) :
     \E j \in SpaceEnds(query, p) :
       \E c \in 1..Len(CuesAfter) : AtLit(query, j, CuesAfter[c])}

\* \b(<capture>)\s+(?:for|from|starting) at position i
CityThenCueAt(query, i, tail) ==
  IF ~WordBoundary(query, i) THEN None ELSE Capture(query, i, tail)

\* re.search of the second pattern: the leftmost match
CityThenCueSearch(query, tail) ==
  FirstSomeOf([i \in 1..Len(query) |-> CityThenCueAt(query, i, tail)])

\* re.search(patterns[k], query).group(1), on the original-case query
PatternMatch(k, query) ==
  IF k = 1 THEN FirstSomeOf([i \in 1..Len(query) |-> CueThenCityAt(query, i)])
  ELSE CityThenCueSearch(query, CueAfter(query))

\* `potential_city.lower() not in [...]`: the match, unless a common word
NotCommonWord(match) ==
  IF match # None /\ Lower(match[1]) \notin StopList THEN match ELSE None

\* rule 2: `for pattern in patterns`, the first match that is no common word
PatternCity(query) ==
  FirstSomeOf([k \in 1..2 |-> NotCommonWord(PatternMatch(k, query))])

\* str.split(): the maximal runs of non-whitespace, in order
Split(s) ==
  LET starts == {i \in 1..Len(s) : ~IsSpace(s[i]) /\ (i = 1 \/ IsSpace(s[i - 1]))}
      nth(k) == CHOOSE i \in starts : Cardinality({j \in starts : j < i}) = k - 1
      last(i) == Min({e \in i..Len(s) : e = Len(s) \/ IsSpace(s[e + 1])})
  IN  [k \in 1..Cardinality(starts) |-> SubSeq(s, nth(k), last(nth(k)))]

\* re.sub(r'[^\w\s]', '', word)
CleanWord(word) == SelectSeq(word, LAMBDA c : IsWordCh(c) \/ IsSpace(c))

\* rule 3, one word: a capitalised word that is a known city, or a long one
CapitalizedWord(cs, word) ==
  LET clean_word == CleanWord(word)
      same == {k \in 1..Len(cs) : Lower(clean_word) = Lower(cs[k])}
  IN  IF clean_word # <<>> /\ IsUpper(clean_word[1]) /\ Len(clean_word) > 2
      THEN IF same # {} THEN Some(cs[Min(same)])
           ELSE IF Len(clean_word) > 3 THEN Some(clean_word)
           ELSE None
      ELSE None

\* rule 3: the first word of the query that yields a city
CapitalizedWords(cs, words) ==
  FirstSomeOf([k \in 1..Len(words) |-> CapitalizedWord(cs, words[k])])
CapitalizedCity(cs, query) == CapitalizedWords(cs, Split(query))

_extract_city(self, query) ==
  FirstSome(KnownCity(self.cities, query),
            FirstSome(PatternCity(query),
                      CapitalizedCity(self.cities, query)))

(***************************************************************************)
(* SimpleTripParser._extract_duration                                      *)
(***************************************************************************)
LitFor == <<102, 111, 114>>                       \* for
LitDay == <<100, 97, 121>>                        \* day
LitDashDay == <<45, 100, 97, 121>>                \* -day
LitTrip == <<116, 114, 105, 112>>                 \* trip
LitWeekend == <<119, 101, 101, 107, 101, 110, 100>>   \* weekend
LitWeek == <<119, 101, 101, 107>>                 \* week
LitMonth == <<109, 111, 110, 116, 104>>           \* month
LitOnes == { <<97>>, <<111, 110, 101>>, <<49>> }  \* a, one, 1

\* the first position of the run of digits that ends at e
DigitRunStart(s, e) ==
  e + 1 - Min({m \in 1..e : m = e \/ ~IsDigit(s[e - m])})

\* the rest of the pattern matches at the positions tail: the positions of
\* the digits that such a match follows
DigitEndsBefore(s, tail) ==
  {p - 1 : p \in {q \in tail : q > 1 /\ IsDigit(s[q - 1])}}

\* (\d+) at j followed by a match of the rest of the pattern: the longest
\* run of digits from j that the rest follows
DigitsBest(s, j, ok) == IF ok = {} THEN None ELSE Some(SubSeq(s, j, Max(ok)))
DigitsThen(s, j, tail) ==
  DigitsBest(s, j, {e \in DigitEndsBefore(s, tail) :
                      j <= e /\ DigitRunStart(s, e) <= j})

\* the positions where \s+days? matches (the optional s always matches)
TailDays(s) ==
  {p \in Positions(s) : \E k \in SpaceEnds(s, p) : AtLit(s, k, LitDay)}
\* the positions where -day matches
TailDashDay(s) == {p \in Positions(s) : AtLit(s, p, LitDashDay)}
\* the positions where \s+day\s+trip matches
TailDayTrip(s) ==
  {p \in Positions(s) :
     \E k \in SpaceEnds(s, p) :
       /\ AtLit(s, k, LitDay)
       /\ \E m \in SpaceEnds(s, k + Len(LitDay)) : AtLit(s, m, LitTrip)}

\* for\s+(\d+)<rest> at position i
ForDigitsAt(s, i, tail) ==
  IF ~AtLit(s, i, LitFor) THEN None
  ELSE LastSomeOf([j \in SpaceEnds(s, i + Len(LitFor)) |-> DigitsThen(s, j, tail)])

\* re.search of for\s+(\d+)<rest> and of (\d+)<rest>: the leftmost match
ForDigitsSearch(s, tail) ==
  FirstSomeOf([i \in 1..Len(s) |-> ForDigitsAt(s, i, tail)])
\* (\d+)<rest> matches from the first digit of a run on, so the leftmost
\* match starts at the first digit of the first run that the rest follows
DigitsFrom(s, tail, starts) ==
  IF starts = {} THEN None ELSE DigitsThen(s, Min(starts), tail)
DigitsSearch(s, tail) ==
  DigitsFrom(s, tail, {DigitRunStart(s, e) : e \in DigitEndsBefore(s, tail)})

\* re.search(patterns[k], query_lower).group(1)
DayPatternMatch(k, s) ==
  IF k = 1 THEN ForDigitsSearch(s, TailDays(s))
  ELSE IF k = 2 THEN DigitsSearch(s, TailDays(s))
  ELSE IF k = 3 THEN DigitsSearch(s, TailDashDay(s))
  ELSE DigitsSearch(s, TailDayTrip(s))

\* int() takes at most this many digits (sys.int_info.default_max_str_digits)
MaxStrDigits == 4300

\* the numbers from IntCap on are represented by IntCap
IntCap == 1000000000

\* ValueError of int() for a string of n digits
ValueError(n) ==
  [type |-> "ValueError",
   detail |-> <<"Exceeds the limit (", MaxStrDigits,
                " digits) for integer string conversion: value has ", n,
                " digits; use sys.set_int_max_str_digits() to increase the limit">>]

\* the digits d without the leading zeros
Significant(d) ==
  LET nonzero == {i \in 1..Len(d) : DigitValue(d[i]) # 0}
  IN  IF nonzero = {} THEN <<>> ELSE SubSeq(d, Min(nonzero), Len(d))

\* the number a string of decimal digits stands for
RECURSIVE DecimalValue(_)
DecimalValue(d) ==
  IF d = <<>> THEN 0
  ELSE 10 * DecimalValue(SubSeq(d, 1, Len(d) - 1)) + DigitValue(d[Len(d)])
NumberOf(d) == IF Len(d) > 9 THEN IntCap ELSE DecimalValue(d)

\* int(d) for a string d of digits
IntOf(d) ==
  IF Len(d) > MaxStrDigits THEN Raises(ValueError(Len(d)))
  ELSE Returns(NumberOf(Significant(d)))

\* 1 <= days <= 365
ReasonableRange(days) == 1 <= days /\ days <= 365

\* `if 1 <= days <= 365: return days`
DaysInRange(days) == IF ReasonableRange(days) THEN Some(days) ELSE None
\* days = int(match.group(1)) and the test: raises, returns, or goes on (None)
DaysOf(int) == IF int.exc # None THEN int ELSE Returns(DaysInRange(int.ret))
\* `if match:` and the body
MatchedDays(match) ==
  IF match = None THEN Returns(None) ELSE DaysOf(IntOf(match[1]))
\* of the patterns in order, the first at which the loop ends
FirstEnding(f) ==
  LET ending == {k \in DOMAIN f : f[k].exc # None \/ f[k].ret # None}
  IN  IF ending = {} THEN Returns(None) ELSE f[Min(ending)]
\* `for pattern in patterns`
NumericDays(query_lower) ==
  FirstEnding([k \in 1..4 |-> MatchedDays(DayPatternMatch(k, query_lower))])

\* re.search(r'(?:a|one|1)\s+<unit>', query_lower)
OneUnit(s, unit) ==
  \E i \in 1..Len(s) : \E one \in LitOnes :
    /\ AtLit(s, i, one)
    /\ \E j \in SpaceEnds(s, i + Len(one)) : AtLit(s, j, unit)

\* the special cases: weekend, week, month
SpecialCases(query_lower) ==
  IF Contains(query_lower, LitWeekend) THEN Some(2)
  ELSE IF /\ Contains(query_lower, LitWeek)
          /\ ~Contains(query_lower, LitWeekend)
          /\ OneUnit(query_lower, LitWeek) THEN Some(7)
  ELSE IF Contains(query_lower, LitMonth) /\ OneUnit(query_lower, LitMonth)
       THEN Some(30)
  ELSE None

\* the loop, and after it the special cases
AfterLoop(numeric, special) ==
  IF numeric.exc # None \/ numeric.ret # None THEN numeric
  ELSE Returns(special)
DurationOf(query_lower) ==
  AfterLoop(NumericDays(query_lower), SpecialCases(query_lower))
_extract_duration(query) == DurationOf(Lower(query))

(***************************************************************************)
(* SimpleTripParser.parse: the returned dictionary, and the instance as    *)
(* the call leaves it                                                      *)
(***************************************************************************)
\* result["city"]: `if city:` replaces the initial ""
CityEntry(city) == IF city # None /\ city[1] # <<>> THEN city[1] ELSE <<>>
\* result["duration_days"]: `if duration:` replaces the initial None
DurationEntry(duration) ==
  IF duration # None /\ duration[1] # 0 THEN duration ELSE None

\* parse after `city = self._extract_city(query)`: the call raises what
\* _extract_duration raises, with result as it then stands, or returns result
ParseEnd(self, city, duration) ==
  [exc |-> duration.exc,
   result |-> [city |-> CityEntry(city),
               duration_days |-> DurationEntry(duration.ret)],
   self |-> self]

\* variant: the call reorders the instance's city list
parseReordering(self, query) ==
  ParseEnd([self EXCEPT !.cities = [i \in 1..Len(@) |-> @[Len(@) + 1 - i]]],
           _extract_city(self, query), _extract_duration(query))

parse(self, query) ==
  ParseEnd(self, _extract_city(self, query), _extract_duration(query))

(***************************************************************************)
(* plan_trip                                                               *)
(***************************************************************************)
\* variant: the default of the comment above the statement, 5
LimitDefaultFive(duration_days) ==
  IF duration_days # None /\ duration_days[1] # 0 THEN duration_days[1] * 2
  ELSE 5

\* limit = (duration_days * 2) if duration_days else 10
Limit(duration_days) ==
  IF duration_days # None /\ duration_days[1] # 0 THEN duration_days[1] * 2
  ELSE 10

\* duration_days or 3
DurationOrDefault(duration_days) ==
  IF duration_days # None /\ duration_days[1] # 0 THEN duration_days[1] ELSE 3

\* the keyword arguments of get_activities_multi_provider
ProviderCall(city, duration_days) ==
  [city |-> city,
   duration_days |-> DurationOrDefault(duration_days),
   limit |-> Limit(duration_days)]

\* raise HTTPException(status_code=400, ...) when the city is empty
CityError == [type |-> "HTTPException", status |-> 400,
              detail |-> "Could not extract city from query. Please specify a city name."]

\* variant: no `except HTTPException: raise`, every exception becomes a 500
ExceptClausesAllGeneric(e) ==
  [status |-> 500, detail |-> <<"Failed to plan trip: ", e.detail>>]

\* the except clauses: an HTTPException is re-raised as it is, anything else
\* becomes HTTPException(500, "Failed to plan trip: " + str(e))
ExceptClauses(e) ==
  IF e.type = "HTTPException" THEN [status |-> e.status, detail |-> e.detail]
  ELSE [status |-> 500, detail |-> <<"Failed to plan trip: ", e.detail>>]

\* TripPlanResponse(city=city, duration_days=duration_days, activities=...)
TripPlanResponse(city, duration_days, activity_list) ==
  [status |-> 200, city |-> city, duration_days |-> duration_days,
   activities |-> activity_list]

\* Activity(**activity) raises unless the record has a name
ActivityValid(activity) == activity # None

(***************************************************************************)
(* The inputs: a query is a sequence of phrases joined by single spaces    *)
(***************************************************************************)
MaxCityWords == 3
MaxDayWords == 4
MaxSpecialWords == 3
MaxPlanWords == 3
MaxActivities == 2
NCallers == 2

RECURSIVE JoinWords(_)
JoinWords(ws) ==
  IF ws = <<>> THEN <<>>
  ELSE IF Len(ws) = 1 THEN ws[1]
  ELSE ws[1] \o <<32>> \o JoinWords(Tail(ws))

Queries(vocabulary, n) ==
  {JoinWords(ws) : ws \in UNION {[1..k -> vocabulary] : k \in 0..n}}

CityWords ==
  { <<77, 101, 108, 98, 111, 117, 114, 110, 101>>,  \* Melbourne
    <<115, 89, 68, 78, 69, 89, 44>>,                \* sYDNEY,
    <<82, 111, 109, 101, 114, 111>>,                \* Romero
    <<82, 111, 109, 101, 233>>,                     \* Rome + U+00E9
    <<8490, 89, 79, 84, 79>>,                       \* U+212A (Kelvin sign) + YOTO
    <<105, 110>>,                                   \* in
    <<105, 110, 32, 77, 97, 121, 44>>,              \* in May,
    <<116, 111, 160, 66, 101, 114, 110>>,           \* to + U+00A0 (no-break space) + Bern
    <<102, 111, 114>>,                              \* for
    <<65, 98, 99>> }                                \* Abc

DayWords ==
  { <<102, 111, 114>>,                      \* for
    <<48>>,                                 \* 0
    <<55>>,                                 \* 7
    <<1635>>,                               \* U+0663 (Arabic-Indic digit three)
    <<51, 54, 54, 32, 100, 97, 121, 115>>,  \* 366 days
    <<100, 97, 121>>,                       \* day
    <<116, 114, 105, 112>>,                 \* trip
    <<53, 45, 100, 97, 121>>,               \* 5-day
    <<119, 101, 101, 107, 101, 110, 100>> } \* weekend

SpecialWords ==
  { <<87, 101, 101, 107, 101, 110, 100>>,        \* Weekend
    <<119, 101, 101, 107>>,                      \* week
    <<97>>,                                      \* a
    <<49>>,                                      \* 1
    <<111, 110, 101, 160, 119, 101, 101, 107>>,  \* one + U+00A0 + week
    <<109, 111, 110, 116, 104>>,                 \* month
    <<100, 97, 121, 115>>,                       \* days
    <<119, 101, 101, 107, 115>> }                \* weeks

PlanWords ==
  { <<82, 111, 109, 101>>,                  \* Rome
    <<105, 110>>,                           \* in
    <<51>>,                                 \* 3
    <<100, 97, 121, 115>>,                  \* days
    <<119, 101, 101, 107, 101, 110, 100>>,  \* weekend
    <<122, 111, 111>> }                     \* zoo

ConcQueries ==
  { <<115, 121, 100, 110, 101, 121, 32, 82, 111, 109, 101>>,  \* sydney Rome
    <<82, 111, 109, 101>> }                                   \* Rome

\* a number of n digits, and the queries with a number of more digits than
\* int() takes: "<before><the number> days<after>"
Ones(n) == [i \in 1..n |-> 49]
LongNumber(before, after) ==
  before \o Ones(MaxStrDigits + 1) \o <<32, 100, 97, 121, 115>> \o after
LongCityQueries ==
  { LongNumber(<<115, 89, 68, 78, 69, 89, 44, 32, 77, 101, 108, 98, 111, 117, 114, 110, 101, 32>>, <<>>),
    LongNumber(<<77, 101, 108, 98, 111, 117, 114, 110, 101, 32>>, <<>>) }
LongDayQueries ==
  { LongNumber(<<>>, <<>>),
    Ones(MaxStrDigits) \o <<32, 100, 97, 121, 115>> }
LongSpecialQueries ==
  { LongNumber(<<>>, <<32, 119, 101, 101, 107, 101, 110, 100>>),
    LongNumber(<<119, 101, 101, 107, 32, 97, 32, 109, 111, 110, 116, 104, 32>>, <<>>) }
LongPlanQueries ==
  { LongNumber(<<82, 111, 109, 101, 32>>, <<>>) }

\* what the POI side can do: get_poi_service() or the provider raises, or the
\* provider returns a list of records, each with a name or without one
PoiFailures == {"poi service unavailable", "provider request failed"}
ActivityRecords == {None, Some(<<90, 111, 111>>)}   \* no name, name "Zoo"
ActivityLists == UNION {[1..k -> ActivityRecords] : k \in 0..MaxActivities}

(***************************************************************************)
(* State                                                                   *)
(***************************************************************************)
VARIABLES
  _simple_trip_parser,   \* the module global: None or a reference into heap
  heap,                  \* the SimpleTripParser instances constructed so far
  pc,                    \* per caller: where it stands
  query,                 \* per caller: the query of its request, None if idle
  fresh,                 \* per caller: the instance it has just constructed
  parser,                \* per caller: what get_simple_trip_parser() returned
  result,                \* per caller: parse's dictionary as the last call left it
  parsed,                \* per caller: what parse() returned
  poi_call,              \* per caller: the arguments the provider was called with
  activities,            \* per caller: what the provider returned
  failure,               \* per caller: what the except clause caught
  response               \* per caller: the response of plan_trip

vars == << _simple_trip_parser, heap, pc, query, fresh, parser, result,
           parsed, poi_call, activities, failure, response >>

Callers == DOMAIN pc

\* the locals of a caller that has not started
InitLocals(callers) ==
  /\ fresh = [t \in callers |-> None]
  /\ result = [t \in callers |-> None]
  /\ parsed = [t \in callers |-> None]
  /\ poi_call = [t \in callers |-> None]
  /\ activities = [t \in callers |-> None]
  /\ failure = [t \in callers |-> None]
  /\ response = [t \in callers |-> None]

\* a process that has just started: no parser yet, the endpoint is idle
Init ==
  /\ _simple_trip_parser = None
  /\ heap = <<>>
  /\ pc = [t \in {1} |-> "idle"]
  /\ query = [t \in {1} |-> None]
  /\ parser = [t \in {1} |-> None]
  /\ InitLocals({1})

\* several callers about to call get_simple_trip_parser() and then parse()
InitConc ==
  /\ _simple_trip_parser = None
  /\ heap = <<>>
  /\ pc = [t \in 1..NCallers |-> "get_parser"]
  /\ query \in [1..NCallers -> {Some(q) : q \in ConcQueries}]
  /\ parser = [t \in 1..NCallers |-> None]
  /\ InitLocals(1..NCallers)

\* one caller that holds the global parser and is about to call parse(q)
InitParse(qs) ==
  /\ _simple_trip_parser = Some(1)
  /\ heap = <<SimpleTripParser>>
  /\ pc = [t \in {1} |-> "parse"]
  /\ query \in [{1} -> {Some(q) : q \in qs}]
  /\ parser = [t \in {1} |-> Some(1)]
  /\ InitLocals({1})

InitCity == InitParse(Queries(CityWords, MaxCityWords) \cup LongCityQueries)
InitDays == InitParse(Queries(DayWords, MaxDayWords) \cup LongDayQueries)
InitSpecial ==
  InitParse(Queries(SpecialWords, MaxSpecialWords) \cup LongSpecialQueries)

(***************************************************************************)
(* get_simple_trip_parser, statement by statement                          *)
(***************************************************************************)
\* if _simple_trip_parser is None:
GetParserTest(t) ==
  /\ pc[t] = "get_parser"
  /\ pc' = [pc EXCEPT ![t] = IF _simple_trip_parser = None THEN "construct"
                             ELSE "return"]
  /\ UNCHANGED << _simple_trip_parser, heap, query, fresh, parser, result, parsed,
                  poi_call, activities, failure, response >>

\* SimpleTripParser()
GetParserConstruct(t) ==
  /\ pc[t] = "construct"
  /\ heap' = Append(heap, SimpleTripParser)
  /\ fresh' = [fresh EXCEPT ![t] = Some(Len(heap) + 1)]
  /\ pc' = [pc EXCEPT ![t] = "assign"]
  /\ UNCHANGED << _simple_trip_parser, query, parser, result, parsed, poi_call,
                  activities, failure, response >>

\* _simple_trip_parser = <the new instance>
GetParserAssign(t) ==
  /\ pc[t] = "assign"
  /\ _simple_trip_parser' = fresh[t]
  /\ pc' = [pc EXCEPT ![t] = "return"]
  /\ UNCHANGED << heap, query, fresh, parser, result, parsed, poi_call, activities,
                  failure, response >>

\* return _simple_trip_parser
GetParserReturn(t) ==
  /\ pc[t] = "return"
  /\ parser' = [parser EXCEPT ![t] = _simple_trip_parser]
  /\ pc' = [pc EXCEPT ![t] = "parse"]
  /\ UNCHANGED << _simple_trip_parser, heap, query, fresh, result, parsed, poi_call,
                  activities, failure, response >>

(***************************************************************************)
(* parsed = parser.parse(request.query), inside the try of plan_trip       *)
(***************************************************************************)
\* the request ends with what the except clauses make of the exception e
Raise(t, e) ==
  /\ response' = [response EXCEPT ![t] = Some(ExceptClauses(e))]
  /\ pc' = [pc EXCEPT ![t] = "done"]

\* an exception other than the HTTPException of the endpoint is caught
Caught(t, e) ==
  /\ failure' = [failure EXCEPT ![t] = Some(e.detail)]
  /\ Raise(t, e)

ParseCall(t) ==
  /\ pc[t] = "parse"
  /\ \E r \in {parse(heap[parser[t][1]], query[t][1])} :
       /\ heap' = [heap EXCEPT ![parser[t][1]] = r.self]
       /\ result' = [result EXCEPT ![t] = Some(r.result)]
       /\ IF r.exc = None
          THEN /\ parsed' = [parsed EXCEPT ![t] = Some(r.result)]
               /\ pc' = [pc EXCEPT ![t] = "parsed"]
               /\ UNCHANGED << failure, response >>
          ELSE /\ Caught(t, r.exc[1])
               /\ UNCHANGED parsed
  /\ UNCHANGED << _simple_trip_parser, query, fresh, parser, poi_call,
                  activities >>

(***************************************************************************)
(* plan_trip                                                               *)
(***************************************************************************)
\* a request arrives: plan_trip(request) starts
Request(t) ==
  /\ pc[t] = "idle"
  /\ \E q \in Queries(PlanWords, MaxPlanWords) \cup LongPlanQueries :
       query' = [query EXCEPT ![t] = Some(q)]
  /\ pc' = [pc EXCEPT ![t] = "get_parser"]
  /\ UNCHANGED << _simple_trip_parser, heap, fresh, parser, result, parsed, poi_call,
                  activities, failure, response >>

\* if not city: raise HTTPException(400)
CheckCity(t) ==
  /\ pc[t] = "parsed"
  /\ IF parsed[t][1].city = <<>>
     THEN Raise(t, CityError)
     ELSE pc' = [pc EXCEPT ![t] = "get_poi"] /\ UNCHANGED response
  /\ UNCHANGED << _simple_trip_parser, heap, query, fresh, parser, result, parsed,
                  poi_call, activities, failure >>

\* poi_service = get_poi_service()
GetPoiService(t) ==
  /\ pc[t] = "get_poi"
  /\ \/ /\ pc' = [pc EXCEPT ![t] = "call_poi"]
        /\ UNCHANGED << failure, response >>
     \/ \E f \in PoiFailures :
          /\ Caught(t, [type |-> "Exception", detail |-> f])
  /\ UNCHANGED << _simple_trip_parser, heap, query, fresh, parser, result, parsed,
                  poi_call, activities >>

\* limit = ...; activities = poi_service.get_activities_multi_provider(...)
CallProvider(t) ==
  /\ pc[t] = "call_poi"
  /\ poi_call' = [poi_call EXCEPT ![t] =
                    Some(ProviderCall(parsed[t][1].city, parsed[t][1].duration_days))]
  /\ \/ \E as \in ActivityLists :
          /\ activities' = [activities EXCEPT ![t] = Some(as)]
          /\ pc' = [pc EXCEPT ![t] = "convert"]
          /\ UNCHANGED << failure, response >>
     \/ \E f \in PoiFailures :
          /\ Caught(t, [type |-> "Exception", detail |-> f])
          /\ UNCHANGED activities
  /\ UNCHANGED << _simple_trip_parser, heap, query, fresh, parser, result, parsed >>

\* activity_list = [Activity(**activity) ...]; return TripPlanResponse(...)
Respond(t) ==
  /\ pc[t] = "convert"
  /\ IF \A i \in 1..Len(activities[t][1]) : ActivityValid(activities[t][1][i])
     THEN /\ response' = [response EXCEPT ![t] = Some(TripPlanResponse(
               parsed[t][1].city, parsed[t][1].duration_days, activities[t][1]))]
          /\ pc' = [pc EXCEPT ![t] = "done"]
          /\ UNCHANGED failure
     ELSE Caught(t, [type |-> "ValidationError", detail |-> "validation error"])
  /\ UNCHANGED << _simple_trip_parser, heap, query, fresh, parser, result, parsed,
                  poi_call, activities >>

\* the response is sent; the locals of the call are gone
Finish(t) ==
  /\ pc[t] = "done"
  /\ pc' = [pc EXCEPT ![t] = "idle"]
  /\ query' = [query EXCEPT ![t] = None]
  /\ fresh' = [fresh EXCEPT ![t] = None]
  /\ parser' = [parser EXCEPT ![t] = None]
  /\ result' = [result EXCEPT ![t] = None]
  /\ parsed' = [parsed EXCEPT ![t] = None]
  /\ poi_call' = [poi_call EXCEPT ![t] = None]
  /\ activities' = [activities EXCEPT ![t] = None]
  /\ failure' = [failure EXCEPT ![t] = None]
  /\ response' = [response EXCEPT ![t] = None]
  /\ UNCHANGED << _simple_trip_parser, heap >>

(***************************************************************************)
(* Specifications                                                          *)
(***************************************************************************)
\* the plan_trip endpoint, one request after the other
Next ==
  \/ \E t \in Callers : Request(t)
  \/ \E t \in Callers : GetParserTest(t)
  \/ \E t \in Callers : GetParserConstruct(t)
  \/ \E t \in Callers : GetParserAssign(t)
  \/ \E t \in Callers : GetParserReturn(t)
  \/ \E t \in Callers : ParseCall(t)
  \/ \E t \in Callers : CheckCity(t)
  \/ \E t \in Callers : GetPoiService(t)
  \/ \E t \in Callers : CallProvider(t)
  \/ \E t \in Callers : Respond(t)
  \/ \E t \in Callers : Finish(t)

Spec == Init /\ [][Next]_vars

\* concurrent callers of get_simple_trip_parser() and parse()
NextConc ==
  \/ \E t \in Callers : GetParserTest(t)
  \/ \E t \in Callers : GetParserConstruct(t)
  \/ \E t \in Callers : GetParserAssign(t)
  \/ \E t \in Callers : GetParserReturn(t)
  \/ \E t \in Callers : ParseCall(t)

SpecConc == InitConc /\ [][NextConc]_vars

\* parse alone, over the queries of a vocabulary
NextParse == \E t \in Callers : ParseCall(t)

SpecCity == InitCity /\ [][NextParse]_vars
SpecDays == InitDays /\ [][NextParse]_vars
SpecSpecial == InitSpecial /\ [][NextParse]_vars

(***************************************************************************)
(* Properties                                                              *)
(***************************************************************************)
\* the call of parse has ended for caller t
ParseEnded(t) == pc[t] \in {"parsed", "get_poi", "call_poi", "convert", "done"}

\* city_lower stands in query_lower as a whole word: no word character
\* stands right before or right after it
OccursAsWholeWord(city_lower, query_lower) ==
  \E i \in 1..(Len(query_lower) - Len(city_lower) + 1) :
    /\ AtLit(query_lower, i, city_lower)
    /\ i = 1 \/ ~IsWordCh(query_lower[i - 1])
    /\ \/ i + Len(city_lower) > Len(query_lower)
       \/ ~IsWordCh(query_lower[i + Len(city_lower)])

\* the list positions of the known cities that query_lower contains as whole
\* words, and those that the query q contains so in any letter case
CitiesIn(query_lower) ==
  {k \in 1..Len(cities) : OccursAsWholeWord(Lower(cities[k]), query_lower)}
CitiesInQuery(q) == CitiesIn(Lower(q))

\* C1: for a query that contains a known city as a whole word, in any letter
\* case, parse returns that city in the spelling of the list.
C1_EveryContainedCityReturned ==
  \A t \in Callers : ParseEnded(t) =>
    \A k \in CitiesInQuery(query[t][1]) :
      /\ parsed[t] # None
      /\ parsed[t][1].city = cities[k]

\* C4: for a query with two or more known cities as whole words, parse
\* returns the one that comes first in the city list.
C4_ListOrderDecides ==
  \A t \in Callers :
    (ParseEnded(t) /\ Cardinality(CitiesInQuery(query[t][1])) >= 2) =>
      /\ parsed[t] # None
      /\ parsed[t][1].city = cities[Min(CitiesInQuery(query[t][1]))]

\* the first pattern matched a common word and no known city is in the query
FirstPatternRejected(q) ==
  /\ KnownCity(cities, q) = None
  /\ PatternMatch(1, q) # None
  /\ Lower(PatternMatch(1, q)[1]) \in StopList

\* C9: after a rejected match of the first pattern the second pattern is not
\* tried: the city parse returns is the one the capitalised-word scan gives.
C9_SecondPatternSkipped ==
  \A t \in Callers :
    (parsed[t] # None /\ FirstPatternRejected(query[t][1])) =>
      parsed[t][1].city = CityEntry(CapitalizedCity(cities, query[t][1]))

\* the number N that the numeric-day pattern k matches in s
MatchedNumber(k, s) == NumberOf(Significant(DayPatternMatch(k, s)[1]))
\* the patterns that match s with N outside 1..365, and with N inside
OutOfRange(s) ==
  {k \in 1..4 : DayPatternMatch(k, s) # None /\ MatchedNumber(k, s) \notin 1..365}
InRange(s) ==
  {k \in 1..4 : DayPatternMatch(k, s) # None /\ MatchedNumber(k, s) \in 1..365}

\* C2: for every query parse returns, with duration_days None or in 1..365;
\* a number outside 1..365 that a pattern matches is not returned, and the
\* result is then what the other patterns and, after them, the weekend,
\* week and month rules give.
C2_DurationInRange ==
  \A t \in Callers : ParseEnded(t) =>
    /\ parsed[t] # None
    /\ LET d == parsed[t][1].duration_days
           s == Lower(query[t][1])
       IN  /\ d = None \/ d[1] \in 1..365
           /\ \A k \in OutOfRange(s) : d # Some(MatchedNumber(k, s))
           /\ OutOfRange(s) # {} =>
                d = IF InRange(s) # {}
                    THEN Some(MatchedNumber(Min(InRange(s)), s))
                    ELSE SpecialCases(s)

\* no numeric-day pattern yields an accepted value for s
NoAcceptedNumber(s) == NumericDays(s).ret = None

\* C5: without an accepted numeric match, a query that contains "weekend"
\* has duration 2, whatever week or month phrase it also contains.
C5_WeekendIsTwoDays ==
  \A t \in Callers :
    ( /\ ParseEnded(t)
      /\ NoAcceptedNumber(Lower(query[t][1]))
      /\ Contains(Lower(query[t][1]), LitWeekend) ) =>
      /\ parsed[t] # None
      /\ parsed[t][1].duration_days = Some(2)

\* C10: without an accepted numeric match the word rules are a strict
\* else-if chain: 2 with "weekend"; else, with "week", 7 for (a|one|1) week
\* and otherwise no duration; else 30 for (a|one|1) month; else no duration.
\* The month rule is consulted only without "weekend" and "week".
C10_MonthOnlyWithoutWeek ==
  \A t \in Callers :
    (ParseEnded(t) /\ NoAcceptedNumber(Lower(query[t][1]))) =>
      /\ parsed[t] # None
      /\ parsed[t][1].duration_days =
           IF Contains(Lower(query[t][1]), LitWeekend) THEN Some(2)
           ELSE IF Contains(Lower(query[t][1]), LitWeek)
                THEN IF OneUnit(Lower(query[t][1]), LitWeek) THEN Some(7)
                     ELSE None
           ELSE IF OneUnit(Lower(query[t][1]), LitMonth) THEN Some(30)
           ELSE None

\* C3: a request whose parsed city is empty ends with the 400 response and
\* nothing else: no provider call, no failure caught, no other response; and
\* no 200 response carries an empty city.
C3_EmptyCityIsClientError ==
  \A t \in Callers :
    /\ (parsed[t] # None /\ parsed[t][1].city = <<>>) =>
         /\ pc[t] \in {"parsed", "done"}
         /\ poi_call[t] = None /\ activities[t] = None /\ failure[t] = None
         /\ pc[t] = "parsed" => response[t] = None
         /\ pc[t] = "done" =>
              response[t] = Some([status |-> 400, detail |-> CityError.detail])
    /\ (response[t] # None /\ response[t][1].status = 200) =>
         response[t][1].city # <<>>

\* a request with an empty city that was answered with 400
C3_Witness ==
  \E t \in Callers :
    /\ pc[t] = "done"
    /\ parsed[t] # None
    /\ parsed[t][1].city = <<>>
    /\ response[t][1].status = 400

\* C6: the provider is called only for a non-empty city, with limit twice the
\* days and the days themselves when they are known, with limit 10 and 3
\* days when they are not; the 200 response reports the parsed days, None
\* when they are not known.
C6_LimitFromDuration ==
  \A t \in Callers :
    /\ poi_call[t] # None =>
         /\ parsed[t] # None
         /\ parsed[t][1].city # <<>>
         /\ poi_call[t][1].city = parsed[t][1].city
         /\ parsed[t][1].duration_days # None =>
              /\ poi_call[t][1].limit = 2 * parsed[t][1].duration_days[1]
              /\ poi_call[t][1].duration_days = parsed[t][1].duration_days[1]
         /\ parsed[t][1].duration_days = None =>
              /\ poi_call[t][1].limit = 10
              /\ poi_call[t][1].duration_days = 3
    /\ (response[t] # None /\ response[t][1].status = 200) =>
         /\ poi_call[t] # None
         /\ response[t][1].duration_days = parsed[t][1].duration_days

\* a 200 response without days whose provider call asked for 10 and 3 days
C6_Witness ==
  \E t \in Callers :
    /\ response[t] # None
    /\ response[t][1].status = 200
    /\ response[t][1].duration_days = None
    /\ poi_call[t][1].limit = 10
    /\ poi_call[t][1].duration_days = 3

\* the parser gave caller t a city, empty or not
CityEmpty(t) == parsed[t] # None /\ parsed[t][1].city = <<>>
CityNotEmpty(t) == parsed[t] # None /\ parsed[t][1].city # <<>>

\* C7: an answered request has status 200, 400 or 500; 400 exactly when the
\* parsed city is empty, 500 exactly when the city is not empty and the
\* step after the parser failed, and the 500 carries the failure's
\* description; a failure ends the request at once.
C7_ErrorKindsApart ==
  \A t \in Callers :
    /\ pc[t] = "done" =>
         /\ response[t] # None
         /\ response[t][1].status \in {200, 400, 500}
         /\ response[t][1].status = 400 <=> CityEmpty(t)
         /\ response[t][1].status = 500 <=>
              (CityNotEmpty(t) /\ failure[t] # None)
         /\ response[t][1].status = 500 =>
              response[t][1].detail = <<"Failed to plan trip: ", failure[t][1]>>
    /\ (failure[t] # None \/ response[t] # None) => pc[t] = "done"

\* C8: every instance keeps the city list it was constructed with, and any
\* two finished parse calls with the same query have the same result,
\* whichever instance each caller got from get_simple_trip_parser().
C8_ParseDependsOnQueryOnly ==
  /\ \A i \in 1..Len(heap) : heap[i].cities = cities
  /\ \A t1, t2 \in Callers :
       (ParseEnded(t1) /\ ParseEnded(t2) /\ query[t1] = query[t2]) =>
         /\ parsed[t1] = parsed[t2]
         /\ result[t1] = result[t2]
         /\ failure[t1] = failure[t2]

\* two callers raced through the initialisation, hold different instances
\* and parsed the same query
C8_Witness ==
  \E t1, t2 \in Callers :
    /\ Len(heap) >= 2
    /\ parser[t1] # None /\ parser[t2] # None /\ parser[t1] # parser[t2]
    /\ parsed[t1] # None /\ parsed[t2] # None
    /\ query[t1] = query[t2]
====
